---------------------------- MODULE Spec2Model ----------------------------
(***************************************************************************)
(* Model of download/manager.py (DownloadManager, DownloadState) and of     *)
(* download/retry_handler.py (RetryConfig, RetryHandler).                  *)
(*                                                                         *)
(* Two threads share the DownloadState object without any lock:            *)
(*   - the main (GUI) thread, which calls start_download and stop_download;*)
(*   - the worker thread, which runs an asyncio event loop. The loop runs  *)
(*     one task at a time: a task keeps the loop from one await to the     *)
(*     next, and only at an await may another task of the loop run or a    *)
(*     CancelledError be delivered.                                        *)
(* The main thread may run between any two steps of the worker.            *)
(*                                                                         *)
(* External processes are owned by the operating system: a process is      *)
(* "unborn", "alive" or "dead"; the handle (asyncio Process) and the pid   *)
(* stored in DownloadState are both the process's number here.             *)
(*                                                                         *)
(* Spec is the DownloadManager. RetrySpec is the RetryHandler driven by    *)
(* calls of execute_with_retry whose steps interleave at their awaits; the *)
(* DownloadManager never calls it, so each specification leaves the other  *)
(* one's variables alone. TextSpec applies the functions on text (phase    *)
(* detection, credential-error and url classification, the parsing of the  *)
(* playlist listing) to arguments drawn from bounded sets of strings.      *)
(***************************************************************************)
EXTENDS Integers, Sequences, FiniteSets, TLC

\* ------------------------------------------------------------------ bounds
\* Number of calls (start_download, stop_download) the main thread makes.
MaxCalls == 3
\* Number of output lines one external process writes.
MaxLines == 2
\* Number of execute_with_retry calls made on the one RetryHandler.
MaxRetryCalls == 2
\* Number of pieces a line given to a function on text is made of.
MaxAtoms == 3
\* Number of lines in the output given to extract_video_info.
MaxOutLines == 2
\* Number of calls the main thread makes where termination is checked.
MaxLiveCalls == 3
\* Number of update_retry_config calls the main thread makes.
MaxUpdates == 1
\* Number of videos in the expansion of a playlist.
MaxItems == 2

None == 0
\* RetryConfig.max_retries as constructed.
MaxRetries == 3
\* The execute_with_retry calls.
Calls == 1..MaxRetryCalls
\* The urls given to execute_with_retry: a video, a video of a playlist.
SingleUrl == "https://youtu.be/abc"
PlaylistUrl == "https://www.youtube.com/watch?v=abc&list=XYZ"
Urls == {SingleUrl, PlaylistUrl}
\* The error of attempt i of call c, of a kind: str(e). "transient" is a
\* message CookieExpiryDetector.is_cookie_expired rejects, "cookie" one it
\* accepts.
Err(c, i, kind) == <<c, i, kind>>
NoError == <<0, 0, "">>
\* The fixed message of the retry after a credential refresh.
RefreshRetryMessage == <<0, 0, "refresh_retry">>
\* Task t is the task of the t-th download start_download accepted.
Tasks == 1..MaxCalls
\* A task spawns at most one download process: process t is task t's.
Procs == Tasks

\* start_download's (url, save_folder) as _validate_params sees them.
Params == {"valid", "blank_url", "blank_folder", "missing_folder"}

\* Output lines of the external process as _parse_progress_line sees
\* them, decoded and stripped: a [download] progress line of a video file
\* and one of an audio file, a merge line, a credential error line, a line
\* none of its branches matches.
VideoLine == "[download] 50% of video.webm"
AudioLine == "[download] 75% of audio.aac"
MergeLine == "[ffmpeg] Merging formats"
CookieLine == "ERROR: Private video. Sign in to view"
OtherLine == "[youtube] abc: Downloading webpage"
Lines == {VideoLine, AudioLine, MergeLine, CookieLine, OtherLine}
\* No line held.
NoLine == "none"

\* -------------------------------------------------------------------- text
\* A Python str is a string here: s[i:j] is SubSeq, + is \o.
UpperCase == "ABCDEFGHIJKLMNOPQRSTUVWXYZ"
LowerCase == "abcdefghijklmnopqrstuvwxyz"

\* str.lower() of one character.
LowerChar(ch) ==
  IF \E i \in 1..Len(UpperCase) : SubSeq(UpperCase, i, i) = ch
    THEN LET i == CHOOSE k \in 1..Len(UpperCase) : SubSeq(UpperCase, k, k) = ch
         IN SubSeq(LowerCase, i, i)
    ELSE ch

\* str.lower().
RECURSIVE Lower(_)
Lower(s) ==
  IF s = "" THEN ""
  ELSE LowerChar(SubSeq(s, 1, 1)) \o Lower(SubSeq(s, 2, Len(s)))

\* pat in s.
In(pat, s) ==
  \E i \in 1..(Len(s) - Len(pat) + 1) : SubSeq(s, i, i + Len(pat) - 1) = pat

\* s.startswith(pat), and re.match of a literal pattern.
StartsWith(s, pat) == Len(pat) <= Len(s) /\ SubSeq(s, 1, Len(pat)) = pat

\* s.endswith(pat).
EndsWith(s, pat) ==
  Len(pat) <= Len(s) /\ SubSeq(s, Len(s) - Len(pat) + 1, Len(s)) = pat

\* The white space of str.strip() and str.split().
IsSpace(ch) == ch \in {" ", "\t", "\n", "\r"}

\* s.strip().
RECURSIVE Strip(_)
Strip(s) ==
  IF s = "" THEN ""
  ELSE IF IsSpace(SubSeq(s, 1, 1)) THEN Strip(SubSeq(s, 2, Len(s)))
  ELSE IF IsSpace(SubSeq(s, Len(s), Len(s)))
    THEN Strip(SubSeq(s, 1, Len(s) - 1))
  ELSE s

\* The index of the first sep (one character) in s, 0 if there is none.
Find(s, sep) ==
  IF In(sep, s)
    THEN CHOOSE k \in 1..Len(s) :
           SubSeq(s, k, k) = sep /\ ~In(sep, SubSeq(s, 1, k - 1))
    ELSE 0

\* s.split(sep), sep one character.
RECURSIVE SplitOn(_, _)
SplitOn(s, sep) ==
  IF ~In(sep, s) THEN <<s>>
  ELSE <<SubSeq(s, 1, Find(s, sep) - 1)>>
         \o SplitOn(SubSeq(s, Find(s, sep) + 1, Len(s)), sep)

\* s.replace(ch, ""), ch one character.
RECURSIVE Remove(_, _)
Remove(s, ch) ==
  IF s = "" THEN ""
  ELSE (IF SubSeq(s, 1, 1) = ch THEN "" ELSE SubSeq(s, 1, 1))
         \o Remove(SubSeq(s, 2, Len(s)), ch)

\* s.split(): the parts of s between runs of white space.
RECURSIVE Split(_)
Split(s) ==
  LET t == Strip(s)
  IN IF t = "" THEN <<>>
     ELSE IF \A k \in 1..Len(t) : ~IsSpace(SubSeq(t, k, k)) THEN <<t>>
     ELSE LET i == CHOOSE k \in 1..Len(t) :
                     /\ IsSpace(SubSeq(t, k, k))
                     /\ \A j \in 1..(k - 1) : ~IsSpace(SubSeq(t, j, j))
          IN <<SubSeq(t, 1, i - 1)>> \o Split(SubSeq(t, i + 1, Len(t)))

\* float(s) does not raise ValueError: the decimal notations, digits with
\* at most one point.
Digits == "0123456789"
IsFloat(s) ==
  /\ \A i \in 1..Len(s) : In(SubSeq(s, i, i), Digits \o ".")
  /\ \E i \in 1..Len(s) : In(SubSeq(s, i, i), Digits)
  /\ Cardinality({i \in 1..Len(s) : SubSeq(s, i, i) = "."}) <= 1

\* The pcs at which a task is suspended in an await.
AwaitPcs ==
  {"probe", "spawned", "readline", "wait", "fswait_a", "fswait_b", "cwait"}

\* What _configure_cookies finds: browser cookies or a non-empty cookie
\* file, or neither (the pre-flight probe follows).
CookieSources == {"configured", "none"}

\* What the probe of _check_if_cookies_needed finds: exit code 0, a
\* members-only error, another error or an exception.
ProbeResults == {"ok", "members_only", "other"}

VARIABLES
  \* DownloadState
  is_downloading, stop_requested, current_download_task, process,
  process_pid, current_phase,
  \* main thread: position in stop_download ("idle": in no call)
  mpc,
  \* worker loop: each download task's position, its pending cancellation,
  \* the process whose future it awaits, the line it holds; the task that
  \* holds the loop; the scheduled and the suspended _immediate_force_stop
  tpc, tcancel, th, tline, running, fsQueued, fsWaiting,
  \* operating system: state and exit code of each process, lines to come
  procs, rc, linesLeft,
  \* callbacks received by the GUI: success and error per session, errors
  \* returned by start_download, "stopped" statuses, progress updates
  nSucc, nErr, startErr, nStopped, nProg,
  \* history: sessions accepted, refused starts, stop calls, the sweeps
  \* done, the last call of the main thread and its result, whether the
  \* stop call began idle and the state it began in, which sessions a stop
  \* or a credential line cancelled, steps of the current stop call, the
  \* pid the last sweep found recorded, which sessions the pre-flight
  \* probe rejected
  nSessions, nRejects, nStops, nSweeps, lastMain, lastRet, idleStop, entry,
  userStop, dataStop, stopTrace, stopPid, rejected,
  \* history: whether the task's read has just timed out
  ticked

sessVars == <<is_downloading, stop_requested, current_download_task, process,
              process_pid, current_phase>>
workVars == <<tpc, tcancel, th, tline, running, fsQueued, fsWaiting>>
osVars == <<procs, rc, linesLeft>>
cbVars == <<nSucc, nErr, startErr, nStopped, nProg>>
histVars == <<nSessions, nRejects, nStops, nSweeps, lastMain, lastRet,
              idleStop, entry, userStop, dataStop, stopTrace, stopPid,
              rejected, ticked>>
mgrVars == <<sessVars, mpc, workVars, osVars, cbVars, histVars>>

VARIABLES
  \* RetryConfig, RetryHandler.retry_count, RetryHandler.last_error
  config, retry_count, last_error,
  \* each execute_with_retry call: its position, its url
  rpc, rurl,
  \* history of each call: outcome of each download_func attempt, the
  \* on_retry_attempt notifications, retry delays begun, answers of
  \* on_cookie_refresh_request, urls given to on_individual_download with
  \* its answers, the value returned, retry_count at the return, whether
  \* another call was in progress during the call
  outcomes, notes, sleeps, refreshes, fallbacks, result, retAt, overlap,
  \* history: the configuration in force when each call was made, the
  \* update_retry_config calls made
  policy, nUpdates

retryVars == <<config, retry_count, last_error, rpc, rurl, outcomes, notes,
               sleeps, refreshes, fallbacks, result, retAt, overlap, policy,
               nUpdates>>

VARIABLES
  \* a call of one of the functions on text: its argument, what it returned
  arg, ret

textVars == <<arg, ret>>

VARIABLES
  \* _on_individual_download: its position, the expansion of the playlist,
  \* the index of the item at hand, success_count
  fpc, video_info, item, success_count,
  \* history: the items whose download was begun with what became of it,
  \* the error callbacks, the value returned
  begun, errors, returned

fbVars == <<fpc, video_info, item, success_count, begun, errors, returned>>

VARIABLES
  \* a call of one of the termination paths: which one, the platform, its
  \* position, state.process_pid, state.process (none, running, exited)
  kpath, kplat, kpc, kpid, kproc,
  \* the OS calls it made with their outcomes, the callbacks it made
  kcalls, kcb

killVars == <<kpath, kplat, kpc, kpid, kproc, kcalls, kcb>>

vars == <<mgrVars, retryVars, textVars, fbVars, killVars>>

\* ------------------------------------------------------------- helpers
Alive(p) == p # None /\ procs[p] = "alive"

\* SIGKILL / taskkill /F on a set of processes: the live ones die.
KillProcs(ps) == [p \in Procs |-> IF p \in ps /\ procs[p] = "alive"
                                  THEN "dead" ELSE procs[p]]
KillRc(ps) == [p \in Procs |-> IF p \in ps /\ procs[p] = "alive"
                               THEN "killed" ELSE rc[p]]

LiveTasks == {t \in Tasks : tpc[t] \notin {"none", "done"}}
AliveProcs == {p \in Procs : procs[p] = "alive"}

\* The calls the main thread has made.
NCalls == nSessions + nRejects + nStops

\* No session: not downloading and no task scheduled or running.
Idle == ~is_downloading /\ LiveTasks = {}

RECURSIVE SumTo(_, _)
SumTo(f, n) == IF n = 0 THEN 0 ELSE f[n] + SumTo(f, n - 1)

\* Every error and every success callback the GUI has received.
TotalErr == startErr + SumTo(nErr, MaxCalls)
TotalSucc == SumTo(nSucc, MaxCalls)

\* The session and the callbacks received, as a stop call finds them.
Snapshot == [is_downloading |-> is_downloading,
             stop_requested |-> stop_requested,
             current_download_task |-> current_download_task,
             process |-> process, process_pid |-> process_pid,
             current_phase |-> current_phase,
             errors |-> TotalErr, successes |-> TotalSucc]

NoEntry == [idle |-> FALSE]

\* ---------------------------------------------------------------- Init
\* DownloadState.__init__ and DownloadManager.__init__ (loop, callbacks).
ManagerInit ==
  /\ is_downloading = FALSE
  /\ stop_requested = FALSE
  /\ current_download_task = None
  /\ process = None
  /\ process_pid = None
  /\ current_phase = "video"
  /\ mpc = "idle"
  /\ tpc = [t \in Tasks |-> "none"]
  /\ tcancel = [t \in Tasks |-> "no"]
  /\ th = [t \in Tasks |-> None]
  /\ tline = [t \in Tasks |-> NoLine]
  /\ running = None
  /\ fsQueued = 0
  /\ fsWaiting = 0
  /\ procs = [p \in Procs |-> "unborn"]
  /\ rc = [p \in Procs |-> "none"]
  /\ linesLeft = [p \in Procs |-> MaxLines]
  /\ nSucc = [t \in Tasks |-> 0]
  /\ nErr = [t \in Tasks |-> 0]
  /\ startErr = 0
  /\ nStopped = 0
  /\ nProg = 0
  /\ nSessions = 0
  /\ nRejects = 0
  /\ nStops = 0
  /\ nSweeps = 0
  /\ lastMain = "none"
  /\ lastRet = FALSE
  /\ idleStop = FALSE
  /\ entry = NoEntry
  /\ userStop = [t \in Tasks |-> FALSE]
  /\ dataStop = [t \in Tasks |-> FALSE]
  /\ stopTrace = <<>>
  /\ stopPid = None
  /\ rejected = [t \in Tasks |-> FALSE]
  /\ ticked = [t \in Tasks |-> FALSE]

\* RetryConfig.__init__.
RetryConfigDefault ==
  [max_retries |-> MaxRetries, cookie_refresh_enabled |-> TRUE,
   individual_download_on_playlist_fail |-> TRUE]

\* RetryHandler.__init__ (last_error = ""), no call made yet.
RetryHandlerInit ==
  /\ retry_count = 0
  /\ last_error = NoError
  /\ rpc = [c \in Calls |-> "none"]
  /\ rurl = [c \in Calls |-> "none"]
  /\ outcomes = [c \in Calls |-> <<>>]
  /\ notes = [c \in Calls |-> <<>>]
  /\ sleeps = [c \in Calls |-> 0]
  /\ refreshes = [c \in Calls |-> <<>>]
  /\ fallbacks = [c \in Calls |-> <<>>]
  /\ result = [c \in Calls |-> "none"]
  /\ retAt = [c \in Calls |-> 0]
  /\ overlap = [c \in Calls |-> FALSE]
  /\ policy = [c \in Calls |-> RetryConfigDefault]
  /\ nUpdates = 0

\* The shape of an argument: the kind of text, the text, the pieces it
\* was made of, and for the output of a process whether the process was
\* launched and its exit code.
Arg(kind, atoms, text, launched, returncode) ==
  [kind |-> kind, atoms |-> atoms, text |-> text, launched |-> launched,
   returncode |-> returncode]

NoArg == Arg("none", <<>>, "", TRUE, 0)
NoRet == [fn |-> "none", value |-> "none"]

\* No call on text is made.
TextIdle == arg = NoArg /\ ret = NoRet

\* No call of _on_individual_download made.
FallbackIdle ==
  /\ fpc = "none"
  /\ video_info = <<>>
  /\ item = 0
  /\ success_count = 0
  /\ begun = <<>>
  /\ errors = <<>>
  /\ returned = "none"

\* No termination path called.
KillIdle ==
  /\ kpath = "none"
  /\ kplat = "none"
  /\ kpc = "idle"
  /\ kpid = None
  /\ kproc = "none"
  /\ kcalls = <<>>
  /\ kcb = <<>>

\* DownloadManager.__init__: the state, the retry handler with the
\* default configuration.
Init ==
  /\ ManagerInit
  /\ config = RetryConfigDefault
  /\ RetryHandlerInit
  /\ TextIdle
  /\ FallbackIdle
  /\ KillIdle

\* ------------------------------------------------- main thread: start
\* ValidateParams without the test that the folder exists.
ValidateParamsNoExists(par) == par \in {"valid", "missing_folder"}

\* _validate_params: blank url, blank folder, folder that does not exist.
ValidateParams(par) == par = "valid"

\* _prepare_download, as the values it assigns.
PrepareDownload ==
  /\ is_downloading' = TRUE
  /\ stop_requested' = FALSE
  /\ process' = None
  /\ process_pid' = None
  /\ current_phase' = "preparing"

\* StartBusy without its return: the error callback, then
\* _prepare_download all the same.
StartBusyNoReturn ==
  /\ startErr' = startErr + 1
  /\ lastRet' = FALSE
  /\ nRejects' = nRejects + 1
  /\ PrepareDownload
  /\ UNCHANGED <<current_download_task, workVars, nSessions>>

\* What start_download does once the parameters are valid and a download
\* is running: one error callback, return False.
StartBusy ==
  /\ startErr' = startErr + 1
  /\ lastRet' = FALSE
  /\ nRejects' = nRejects + 1
  /\ UNCHANGED <<sessVars, workVars, nSessions>>

\* What start_download does once the parameters are valid and no download
\* is running: _prepare_download, then the task is handed to the loop.
StartAccept ==
  /\ PrepareDownload
  /\ current_download_task' = nSessions + 1
  /\ tpc' = [tpc EXCEPT ![nSessions + 1] = "new"]
  /\ nSessions' = nSessions + 1
  /\ lastRet' = TRUE
  /\ UNCHANGED <<tcancel, th, tline, running, fsQueued, fsWaiting,
                 startErr, nRejects>>

\* start_download(url, save_folder, quality, use_browser_cookies).
StartDownload(par) ==
  /\ mpc = "idle"
  /\ NCalls < MaxCalls
  /\ IF ~ValidateParams(par)
       THEN /\ startErr' = startErr + 1
            /\ lastRet' = FALSE
            /\ nRejects' = nRejects + 1
            /\ lastMain' = "start_invalid"
            /\ UNCHANGED <<sessVars, workVars, nSessions>>
       ELSE /\ IF is_downloading
                 THEN StartBusy
                 ELSE StartAccept
            /\ lastMain' = IF lastMain = "stop" /\ idleStop
                             THEN "start_after_idle_stop" ELSE "start"
  /\ UNCHANGED <<mpc, osVars, nSucc, nErr, nStopped, nProg, nStops, nSweeps,
                 idleStop, entry, userStop, dataStop, ticked, stopTrace, stopPid,
                 rejected,
                 retryVars, textVars, fbVars, killVars>>

\* -------------------------------------------------- main thread: stop
\* StopOrder with the task cancelled before the kill sweep.
StopOrderCancelFirst == <<"cancel", "kill", "sched", "cleanup">>

\* The statements of stop_download after the first, in program order.
StopOrder == <<"kill", "cancel", "sched", "cleanup">>

\* The step after step s of stop_download ("idle": return).
StopNext(s) ==
  IF s = "flag" THEN StopOrder[1]
  ELSE LET i == CHOOSE k \in 1..Len(StopOrder) : StopOrder[k] = s
       IN IF i = Len(StopOrder) THEN "idle" ELSE StopOrder[i + 1]

StopAdvance(s) ==
  /\ mpc' = StopNext(s)
  /\ stopTrace' = Append(stopTrace, s)
  /\ lastMain' = IF StopNext(s) = "idle" THEN "stop" ELSE lastMain

\* self.state.stop_requested = True
StopFlag ==
  /\ mpc = "idle"
  /\ NCalls < MaxCalls
  /\ stop_requested' = TRUE
  /\ nStops' = nStops + 1
  /\ idleStop' = Idle
  /\ entry' = IF Idle THEN Snapshot ELSE NoEntry
  /\ userStop' = [t \in Tasks |->
                    userStop[t] \/ (t = current_download_task
                                    /\ tpc[t] # "done")]
  /\ mpc' = StopNext("flag")
  /\ stopTrace' = <<"flag">>
  /\ UNCHANGED <<is_downloading, current_download_task, process, process_pid,
                 current_phase, workVars, osVars, cbVars, nSessions, nRejects,
                 nSweeps, lastMain, lastRet, dataStop, ticked, stopPid, rejected,
                 retryVars, textVars, fbVars, killVars>>

\* KillProcessImmediately without the kill by process name.
KillProcessImmediatelyNoSweep ==
  LET byPid == IF process_pid # None THEN {process_pid} ELSE {}
      byHandle == IF process # None THEN {process} ELSE {}
      ps == byPid \cup byHandle
  IN /\ procs' = KillProcs(ps)
     /\ rc' = KillRc(ps)
     /\ process_pid' = None

\* _kill_process_immediately: kill by the recorded pid, kill every process
\* of the tool's name, kill through the handle, clear the pid; then
\* _verify_process_stopped (status callbacks only).
KillProcessImmediately ==
  LET byPid == IF process_pid # None THEN {process_pid} ELSE {}
      byName == AliveProcs
      byHandle == IF process # None THEN {process} ELSE {}
      ps == byPid \cup byName \cup byHandle
  IN /\ procs' = KillProcs(ps)
     /\ rc' = KillRc(ps)
     /\ process_pid' = None

StopKill ==
  /\ mpc = "kill"
  /\ KillProcessImmediately
  /\ nSweeps' = nSweeps + 1
  /\ stopPid' = process_pid
  /\ StopAdvance("kill")
  /\ UNCHANGED <<is_downloading, stop_requested, current_download_task,
                 process, current_phase, workVars, linesLeft, cbVars,
                 nSessions, nRejects, nStops, lastRet, idleStop, entry,
                 userStop, dataStop, ticked, rejected,
                 retryVars, textVars, fbVars, killVars>>

\* CancelTask without the done() test: the task reference is dropped even
\* when the task has finished.
CancelTaskAlways ==
  IF current_download_task # None
    THEN /\ tcancel' = [tcancel EXCEPT ![current_download_task] =
                          IF tpc[current_download_task] = "done" THEN @
                          ELSE IF running = current_download_task
                                 THEN "must" ELSE "queued"]
         /\ current_download_task' = None
    ELSE UNCHANGED <<tcancel, current_download_task>>

\* Future.cancel() of a task that has not finished: the cancellation is
\* handed to the loop (call_soon_threadsafe). A task in the middle of a
\* step meets it at its next await ("must"); a suspended or not yet
\* started task may still take the one step whose wake-up was queued
\* before it ("queued").
CancelTask ==
  IF current_download_task # None /\ tpc[current_download_task] # "done"
    THEN /\ tcancel' = [tcancel EXCEPT ![current_download_task] =
                          IF running = current_download_task
                            THEN "must" ELSE "queued"]
         /\ current_download_task' = None
    ELSE UNCHANGED <<tcancel, current_download_task>>

StopCancel ==
  /\ mpc = "cancel"
  /\ CancelTask
  /\ StopAdvance("cancel")
  /\ UNCHANGED <<is_downloading, stop_requested, process, process_pid,
                 current_phase, tpc, th, tline, running, fsQueued, fsWaiting,
                 osVars, cbVars, nSessions, nRejects, nStops, nSweeps,
                 lastRet, idleStop, entry, userStop, dataStop, ticked, stopPid,
                 rejected,
                 retryVars, textVars, fbVars, killVars>>

\* asyncio.run_coroutine_threadsafe(self._immediate_force_stop(), loop)
StopSched ==
  /\ mpc = "sched"
  /\ fsQueued' = fsQueued + 1
  /\ StopAdvance("sched")
  /\ UNCHANGED <<sessVars, tpc, tcancel, th, tline, running, fsWaiting,
                 osVars, cbVars, nSessions, nRejects, nStops, nSweeps,
                 lastRet, idleStop, entry, userStop, dataStop, ticked, stopPid,
                 rejected,
                 retryVars, textVars, fbVars, killVars>>

\* _cleanup_after_stop, as the values it assigns.
CleanupAfterStop ==
  /\ is_downloading' = FALSE
  /\ process' = None
  /\ process_pid' = None
  /\ nStopped' = nStopped + 1

StopCleanup ==
  /\ mpc = "cleanup"
  /\ CleanupAfterStop
  /\ StopAdvance("cleanup")
  /\ UNCHANGED <<stop_requested, current_download_task, current_phase,
                 workVars, osVars, nSucc, nErr, startErr, nProg, nSessions,
                 nRejects, nStops, nSweeps, lastRet, idleStop, entry,
                 userStop, dataStop, ticked, stopPid, rejected,
                 retryVars, textVars, fbVars, killVars>>

\* ------------------------------------------------------ worker: tasks
\* What no step of a download task touches.
TaskFrame ==
  UNCHANGED <<mpc, current_download_task, fsQueued, fsWaiting, startErr,
              nStopped, nSessions, nRejects, nStops, nSweeps, lastMain,
              lastRet, idleStop, entry, userStop, stopTrace, stopPid,
              rejected,
                 retryVars, textVars, fbVars, killVars>>

\* Task t moves to pc; it gives the loop back at an await and at its end.
Goto(t, pc) ==
  /\ tpc' = [tpc EXCEPT ![t] = pc]
  /\ running' = IF pc \in AwaitPcs \cup {"done"} THEN None ELSE t

\* Task t is woken by the loop. A cancellation handed to the loop after
\* this wake-up is met at the task's next await.
Resume(t) ==
  /\ running = None
  /\ tcancel[t] # "must"
  /\ tcancel' = [tcancel EXCEPT ![t] = IF @ = "queued" THEN "must" ELSE @]

\* Task t goes on within its step.
Within(t) ==
  /\ running = t
  /\ UNCHANGED tcancel

\* _force_stop_process called by task t: a live process behind the handle
\* is killed and its exit awaited (at pc waitPc); else the task goes on
\* (to pc nextPc).
ForceStopProcess(t, waitPc, nextPc) ==
  IF Alive(process)
    THEN /\ procs' = KillProcs({process})
         /\ rc' = KillRc({process})
         /\ th' = [th EXCEPT ![t] = process]
         /\ Goto(t, waitPc)
    ELSE /\ UNCHANGED <<procs, rc, th>>
         /\ Goto(t, nextPc)

\* _download_video_async, first step: the stop check of line 371, then
\* _execute_download as far as _configure_cookies: with cookies from the
\* source src the command is complete, without them the probe process of
\* _check_if_cookies_needed is created and awaited.
TaskStart(t, src) ==
  /\ tpc[t] = "new"
  /\ Resume(t)
  /\ Goto(t, IF stop_requested THEN "cleanup"
             ELSE IF src = "configured" THEN "spawn" ELSE "probe")
  /\ UNCHANGED <<is_downloading, stop_requested, process, process_pid,
                 current_phase, th, tline, osVars, nSucc, nErr, nProg,
                 dataStop, ticked>>
  /\ TaskFrame

\* The probe has ended (lines 468-508) with the result res. A
\* members-only error: the error callback, _configure_cookies is False and
\* _execute_download returns (line 411). Else the download goes on.
TaskProbed(t, res) ==
  /\ tpc[t] = "probe"
  /\ Resume(t)
  /\ nErr' = IF res = "members_only" THEN [nErr EXCEPT ![t] = @ + 1] ELSE nErr
  /\ rejected' = [rejected EXCEPT ![t] = res = "members_only"]
  /\ Goto(t, IF res = "members_only" THEN "chk379" ELSE "spawn")
  /\ UNCHANGED <<is_downloading, stop_requested, process, process_pid,
                 current_phase, th, tline, osVars, nSucc, nProg, dataStop, ticked>>
  /\ UNCHANGED <<mpc, current_download_task, fsQueued, fsWaiting, startErr,
                 nStopped, nSessions, nRejects, nStops, nSweeps, lastMain,
                 lastRet, idleStop, entry, userStop, stopTrace, stopPid,
                 retryVars, textVars, fbVars, killVars>>

\* _run_download_process: create_subprocess_exec starts the process and
\* the task awaits it.
TaskSpawn(t) ==
  /\ tpc[t] = "spawn"
  /\ Within(t)
  /\ procs[t] = "unborn"
  /\ procs' = [procs EXCEPT ![t] = "alive"]
  /\ th' = [th EXCEPT ![t] = t]
  /\ Goto(t, "spawned")
  /\ UNCHANGED <<is_downloading, stop_requested, process, process_pid,
                 current_phase, tline, rc, linesLeft, nSucc, nErr, nProg,
                 dataStop, ticked>>
  /\ TaskFrame

\* create_subprocess_exec raises (OSError: the tool cannot be executed):
\* the exception reaches _download_video_async.
TaskSpawnFails(t) ==
  /\ tpc[t] = "spawn"
  /\ Within(t)
  /\ procs[t] = "unborn"
  /\ Goto(t, "exc")
  /\ UNCHANGED <<is_downloading, stop_requested, process, process_pid,
                 current_phase, th, tline, osVars, nSucc, nErr, nProg,
                 dataStop, ticked>>
  /\ TaskFrame

\* self.state.process = <the process created> (line 514).
TaskSpawned(t) ==
  /\ tpc[t] = "spawned"
  /\ Resume(t)
  /\ process' = th[t]
  /\ Goto(t, "setpid")
  /\ UNCHANGED <<is_downloading, stop_requested, process_pid,
                 current_phase, th, tline, osVars, nSucc, nErr, nProg,
                 dataStop, ticked>>
  /\ TaskFrame

\* self.state.process_pid = self.state.process.pid (line 522); with the
\* handle cleared meanwhile this raises AttributeError.
TaskSetPid(t) ==
  /\ tpc[t] = "setpid"
  /\ Within(t)
  /\ IF process = None
       THEN Goto(t, "exc") /\ UNCHANGED process_pid
       ELSE Goto(t, "loop") /\ process_pid' = process
  /\ UNCHANGED <<is_downloading, stop_requested, process, current_phase,
                 th, tline, osVars, nSucc, nErr, nProg, dataStop, ticked>>
  /\ TaskFrame

\* _read_process_output, before a read: without a handle the sequence
\* ends; with stop_requested the process is force-stopped and the
\* sequence ends; else a line is awaited.
TaskLoop(t) ==
  /\ tpc[t] = "loop"
  /\ Within(t)
  /\ IF process = None
       THEN Goto(t, "postloop") /\ UNCHANGED <<procs, rc, th>>
       ELSE IF stop_requested
              THEN ForceStopProcess(t, "fswait_a", "postloop")
              ELSE /\ th' = [th EXCEPT ![t] = process]
                   /\ Goto(t, "readline")
                   /\ UNCHANGED <<procs, rc>>
  /\ ticked' = [ticked EXCEPT ![t] = @ /\ tpc'[t] # "readline"]
  /\ UNCHANGED <<is_downloading, stop_requested, process, process_pid,
                 current_phase, tline, linesLeft, nSucc, nErr, nProg,
                 dataStop>>
  /\ TaskFrame

\* readline() returns a line.
TaskReadLine(t, line) ==
  /\ tpc[t] = "readline"
  /\ Resume(t)
  /\ linesLeft[th[t]] > 0
  /\ linesLeft' = [linesLeft EXCEPT ![th[t]] = @ - 1]
  /\ tline' = [tline EXCEPT ![t] = line]
  /\ Goto(t, "chk529")
  /\ UNCHANGED <<is_downloading, stop_requested, process, process_pid,
                 current_phase, th, procs, rc, nSucc, nErr, nProg, dataStop, ticked>>
  /\ TaskFrame

\* TaskReadEOF with the empty read taken for a tick: back to the stop
\* check.
TaskReadEOFPolls(t) ==
  /\ tpc[t] = "readline"
  /\ Resume(t)
  /\ procs[th[t]] = "dead"
  /\ Goto(t, "loop")
  /\ UNCHANGED <<is_downloading, stop_requested, process, process_pid,
                 current_phase, th, tline, osVars, nSucc, nErr, nProg,
                 dataStop, ticked>>
  /\ TaskFrame

\* readline() returns b"" (the process closed its output): the sequence
\* ends.
TaskReadEOF(t) ==
  /\ tpc[t] = "readline"
  /\ Resume(t)
  /\ procs[th[t]] = "dead"
  /\ Goto(t, "postloop")
  /\ UNCHANGED <<is_downloading, stop_requested, process, process_pid,
                 current_phase, th, tline, osVars, nSucc, nErr, nProg,
                 dataStop, ticked>>
  /\ TaskFrame

\* TaskReadTimeout with the timeout ending the line sequence.
TaskReadTimeoutEnds(t) ==
  /\ tpc[t] = "readline"
  /\ Resume(t)
  /\ procs[th[t]] = "alive"
  /\ Goto(t, "postloop")
  /\ UNCHANGED <<is_downloading, stop_requested, process, process_pid,
                 current_phase, th, tline, osVars, nSucc, nErr, nProg,
                 dataStop, ticked>>
  /\ TaskFrame

\* wait_for(readline(), 1.0) times out: back to the stop check.
TaskReadTimeout(t) ==
  /\ tpc[t] = "readline"
  /\ Resume(t)
  /\ procs[th[t]] = "alive"
  /\ Goto(t, "loop")
  /\ ticked' = [ticked EXCEPT ![t] = TRUE]
  /\ UNCHANGED <<is_downloading, stop_requested, process, process_pid,
                 current_phase, th, tline, osVars, nSucc, nErr, nProg,
                 dataStop>>
  /\ TaskFrame

\* _run_download_process, the stop check before a line is parsed
\* (line 529).
TaskCheckStop(t) ==
  /\ tpc[t] = "chk529"
  /\ Within(t)
  /\ IF stop_requested
       THEN ForceStopProcess(t, "fswait_a", "postloop")
       ELSE Goto(t, "parse") /\ UNCHANGED <<procs, rc, th>>
  /\ UNCHANGED <<is_downloading, stop_requested, process, process_pid,
                 current_phase, tline, linesLeft, nSucc, nErr, nProg,
                 dataStop, ticked>>
  /\ TaskFrame

\* The order of the phases of one session.
PhaseRank(p) ==
  CASE p = "preparing" -> 0
    [] p = "video" -> 1
    [] p = "audio" -> 2
    [] p = "merging" -> 3

\* DetectDownloadLine with the video extensions tested before the audio
\* extensions.
DetectDownloadLineVideoFirst(line, line_lower) ==
  IF \E ext \in {".mp4", ".webm", ".mkv"} : In(ext, line)
    THEN IF In("audio", line_lower) THEN "audio" ELSE "video"
  ELSE IF \E ext \in {".m4a", ".aac", ".opus", ".mp3"} : In(ext, line)
    THEN "audio"
  ELSE "none"

\* _detect_download_phase once the merge keywords have not matched and
\* the line has the [download] marker.
DetectDownloadLine(line, line_lower) ==
  IF \E ext \in {".m4a", ".aac", ".opus", ".mp3"} : In(ext, line)
    THEN "audio"
  ELSE IF \E ext \in {".mp4", ".webm", ".mkv"} : In(ext, line)
    THEN IF In("audio", line_lower) THEN "audio" ELSE "video"
  ELSE IF In("downloading video", line_lower) THEN "video"
  ELSE IF In("downloading audio", line_lower) THEN "audio"
  ELSE IF /\ In("of", line)
          /\ \E unit \in {"mib", "kib", "gib"} : In(unit, line_lower)
    THEN "none"
  ELSE IF In("audio", line_lower) THEN "audio"
  ELSE IF In("video", line_lower) THEN "video"
  ELSE "none"

\* DetectDownloadPhase that never goes back: a phase earlier in the order
\* than the current one is not reported.
DetectDownloadPhaseForwardOnly(line) ==
  LET line_lower == Lower(line)
      d == IF \E k \in {"merging", "ffmpeg", "post-processing"} :
                 In(k, line_lower)
             THEN "merging"
           ELSE IF In("[download]", line)
             THEN DetectDownloadLine(line, line_lower)
           ELSE "none"
  IN IF d # "none" /\ PhaseRank(d) < PhaseRank(current_phase)
       THEN "none" ELSE d

\* DetectDownloadPhase with the merge keywords tested after the
\* [download] line.
DetectDownloadPhaseMergeLast(line) ==
  LET line_lower == Lower(line)
      d == IF In("[download]", line)
             THEN DetectDownloadLine(line, line_lower) ELSE "none"
  IN IF d # "none" THEN d
     ELSE IF \E k \in {"merging", "ffmpeg", "post-processing"} :
                In(k, line_lower)
       THEN "merging"
     ELSE "none"

\* _detect_download_phase ("none": None, no update).
DetectDownloadPhase(line) ==
  LET line_lower == Lower(line)
  IN IF \E k \in {"merging", "ffmpeg", "post-processing"} : In(k, line_lower)
       THEN "merging"
     ELSE IF In("[download]", line)
       THEN DetectDownloadLine(line, line_lower)
     ELSE "none"

\* The keywords of _is_cookie_error.
CookieErrorKeywords ==
  {"members-only", "private video", "video is private",
   "requires authentication", "login required",
   "this video is only available for", "membership required",
   "sign in to confirm your age", "access denied"}

\* IsCookieError with 'video unavailable' as one more keyword.
IsCookieErrorBareUnavailable(line) ==
  LET line_lower == Lower(line)
  IN \/ \E k \in CookieErrorKeywords : In(k, line_lower)
     \/ In("video unavailable", line_lower)

\* _is_cookie_error.
IsCookieError(line) ==
  LET line_lower == Lower(line)
  IN \/ \E k \in CookieErrorKeywords : In(k, line_lower)
     \/ /\ In("video unavailable", line_lower)
        /\ In("private", line_lower) \/ In("member", line_lower)
     \/ /\ In("video unavailable", line_lower)
        /\ In("sign in", line_lower)

\* The branch of _parse_progress_line a line takes.
ParseBranch(line) ==
  IF In("[download]", line) /\ In("%", line) THEN "progress"
  ELSE IF \/ In("ffmpeg", Lower(line))
          \/ In("Merging", line)
          \/ In("merging", Lower(line))
    THEN "merging"
  ELSE IF IsCookieError(line) THEN "cookie"
  ELSE "none"

\* The progress branch reaches progress_callback: a part of the line ends
\* with % and is a float once its % are removed.
HasPercent(line) ==
  \E i \in 1..Len(Split(line)) :
     LET part == Split(line)[i]
     IN EndsWith(part, "%") /\ IsFloat(Remove(part, "%"))

\* _get_phase_status_text as far as the line decides: the phase its label
\* names, "phase" when the line names none and current_phase decides.
LineLabel(line) ==
  LET line_lower == Lower(line)
  IN IF \E ext \in {".m4a", ".aac", ".opus", ".mp3"} : In(ext, line)
       THEN "audio"
     ELSE IF /\ \E ext \in {".mp4", ".webm", ".mkv"} : In(ext, line)
             /\ ~In("audio", line_lower)
       THEN "video"
     ELSE IF \/ In("downloading audio", line_lower)
             \/ /\ In("audio", line_lower)
                /\ In("downloading", line_lower) \/ In("%", line)
       THEN "audio"
     ELSE IF \/ In("downloading video", line_lower)
             \/ /\ In("video", line_lower)
                /\ In("downloading", line_lower) \/ In("%", line)
       THEN "video"
     ELSE IF \E k \in {"merging", "ffmpeg", "post-processing"} :
                In(k, line_lower)
       THEN "merging"
     ELSE "phase"

\* _get_phase_status_text: the phase its label names ("generic": the
\* label of no phase), from the line first and from current_phase last.
GetPhaseStatusText(fromLine, phase) ==
  IF fromLine # "phase" THEN fromLine
  ELSE IF phase \in {"video", "audio", "merging"} THEN phase
  ELSE "generic"

\* What _parse_progress_line reads in a line: the phase detected, the
\* branch taken, whether a percentage is read, what the label takes from
\* the line.
ParseFacts(line) ==
  [phase |-> DetectDownloadPhase(line),
   branch |-> ParseBranch(line),
   percent |-> HasPercent(line),
   label |-> LineLabel(line)]

\* _parse_progress_line on a line with the facts f, with current_phase =
\* before: the current_phase it leaves and the phase named by the label
\* given to the progress callback ("none": the callback is not called).
ParseProgressText(before, f) ==
  LET updated == IF f.phase # "none" THEN f.phase ELSE before
  IN [before |-> before,
      phase |-> IF f.branch = "merging" THEN "merging" ELSE updated,
      label |-> IF f.branch = "progress" /\ f.percent
                  THEN GetPhaseStatusText(f.label, updated) ELSE "none"]

\* What _parse_progress_line finds in each line of Lines: the phase
\* detected, the branch taken, whether a percentage is read.
ParseProgressLine ==
  [line \in Lines |-> [phase |-> DetectDownloadPhase(line),
                       branch |-> ParseBranch(line),
                       percent |-> HasPercent(line)]]

\* _parse_progress_line (line 533): the phase update, then the progress
\* callback of a progress line, or the credential error of a credential
\* line: error callback, then stop_requested.
TaskParse(t) ==
  /\ tpc[t] = "parse"
  /\ Within(t)
  /\ LET phase == ParseProgressLine[tline[t]].phase
         branch == ParseProgressLine[tline[t]].branch
     IN /\ current_phase' = IF branch = "merging" THEN "merging"
                             ELSE IF phase # "none" THEN phase
                             ELSE current_phase
        /\ nProg' = IF /\ branch = "progress"
                         /\ ParseProgressLine[tline[t]].percent
                      THEN nProg + 1 ELSE nProg
        /\ nErr' = IF branch = "cookie"
                     THEN [nErr EXCEPT ![t] = @ + 1] ELSE nErr
        /\ stop_requested' = IF branch = "cookie" THEN TRUE
                              ELSE stop_requested
        /\ dataStop' = IF branch = "cookie"
                         THEN [dataStop EXCEPT ![t] = TRUE] ELSE dataStop
  /\ tline' = [tline EXCEPT ![t] = NoLine]
  /\ Goto(t, "loop")
  /\ UNCHANGED <<is_downloading, process, process_pid, th, osVars, nSucc,
                 ticked>>
  /\ TaskFrame

\* The exit awaited by _force_stop_process in the read loop has come:
\* break, the sequence ends.
TaskForceStopped(t) ==
  /\ tpc[t] = "fswait_a"
  /\ Resume(t)
  /\ procs[th[t]] = "dead"
  /\ Goto(t, "postloop")
  /\ UNCHANGED <<is_downloading, stop_requested, process, process_pid,
                 current_phase, th, tline, osVars, nSucc, nErr, nProg,
                 dataStop, ticked>>
  /\ TaskFrame

\* _run_download_process after the loop (lines 536-540): wait for the
\* exit, or force-stop when stop_requested. process.wait() on a cleared
\* handle raises AttributeError.
TaskPostLoop(t) ==
  /\ tpc[t] = "postloop"
  /\ Within(t)
  /\ IF ~stop_requested
       THEN IF process = None
              THEN Goto(t, "exc") /\ UNCHANGED <<procs, rc, th>>
              ELSE /\ th' = [th EXCEPT ![t] = process]
                   /\ Goto(t, "wait")
                   /\ UNCHANGED <<procs, rc>>
       ELSE ForceStopProcess(t, "fswait_b", "chk379")
  /\ UNCHANGED <<is_downloading, stop_requested, process, process_pid,
                 current_phase, tline, linesLeft, nSucc, nErr, nProg,
                 dataStop, ticked>>
  /\ TaskFrame

\* process.wait() returns (line 537), whatever the exit code, or the exit
\* awaited by _force_stop_process (line 540) has come:
\* _run_download_process and _execute_download return.
TaskWaited(t) ==
  /\ tpc[t] \in {"wait", "fswait_b"}
  /\ Resume(t)
  /\ procs[th[t]] = "dead"
  /\ Goto(t, "chk379")
  /\ UNCHANGED <<is_downloading, stop_requested, process, process_pid,
                 current_phase, th, tline, osVars, nSucc, nErr, nProg,
                 dataStop, ticked>>
  /\ TaskFrame

\* _download_video_async, the check before the success callback
\* (line 379).
TaskCheckSuccess(t) ==
  /\ tpc[t] = "chk379"
  /\ Within(t)
  /\ Goto(t, IF ~stop_requested /\ is_downloading THEN "emit" ELSE "cleanup")
  /\ UNCHANGED <<is_downloading, stop_requested, process, process_pid,
                 current_phase, th, tline, osVars, nSucc, nErr, nProg,
                 dataStop, ticked>>
  /\ TaskFrame

\* self.success_callback() (line 381).
TaskEmitSuccess(t) ==
  /\ tpc[t] = "emit"
  /\ Within(t)
  /\ nSucc' = [nSucc EXCEPT ![t] = @ + 1]
  /\ Goto(t, "cleanup")
  /\ UNCHANGED <<is_downloading, stop_requested, process, process_pid,
                 current_phase, th, tline, osVars, nErr, nProg, dataStop, ticked>>
  /\ TaskFrame

\* except Exception (lines 388-392): the error callback unless stopped.
TaskException(t) ==
  /\ tpc[t] = "exc"
  /\ Within(t)
  /\ nErr' = IF ~stop_requested /\ is_downloading
               THEN [nErr EXCEPT ![t] = @ + 1] ELSE nErr
  /\ Goto(t, "cleanup")
  /\ UNCHANGED <<is_downloading, stop_requested, process, process_pid,
                 current_phase, th, tline, osVars, nSucc, nProg, dataStop, ticked>>
  /\ TaskFrame

\* CleanupAfterCompletion that leaves stop_requested as it is.
CleanupAfterCompletionKeepsFlag ==
  /\ is_downloading' = FALSE
  /\ UNCHANGED stop_requested
  /\ process' = None
  /\ process_pid' = None

\* _cleanup_after_completion, as the values it assigns.
CleanupAfterCompletion ==
  /\ is_downloading' = FALSE
  /\ stop_requested' = FALSE
  /\ process' = None
  /\ process_pid' = None

\* finally: self._cleanup_after_completion() (line 394); the task ends.
TaskCleanup(t) ==
  /\ tpc[t] = "cleanup"
  /\ Within(t)
  /\ CleanupAfterCompletion
  /\ Goto(t, "done")
  /\ UNCHANGED <<current_phase, th, tline, osVars, nSucc, nErr, nProg,
                 dataStop, ticked>>
  /\ TaskFrame

\* CancelledError is delivered to task t at its await. A process still
\* being created is closed by asyncio. The handler of
\* _run_download_process (lines 542-555) terminates a live process behind
\* the handle and awaits its exit, then re-raises; during the probe the
\* task is not in _run_download_process and the error goes straight to
\* _download_video_async.
TaskCancelled(t) ==
  /\ tpc[t] \in AwaitPcs \ {"cwait"}
  /\ running = None
  /\ tcancel[t] \in {"queued", "must"}
  /\ tcancel' = [tcancel EXCEPT ![t] = "no"]
  /\ LET closed == IF tpc[t] = "spawned" THEN {th[t]} ELSE {}
         handle == IF tpc[t] # "probe" /\ Alive(process)
                        /\ process \notin closed
                     THEN {process} ELSE {}
     IN /\ procs' = KillProcs(closed \cup handle)
        /\ rc' = KillRc(closed \cup handle)
        /\ IF handle # {}
             THEN th' = [th EXCEPT ![t] = process] /\ Goto(t, "cwait")
             ELSE UNCHANGED th /\ Goto(t, "cleanup")
  /\ UNCHANGED <<is_downloading, stop_requested, process, process_pid,
                 current_phase, tline, linesLeft, nSucc, nErr, nProg,
                 dataStop, ticked>>
  /\ TaskFrame

\* The exit awaited by the CancelledError handler has come: raise; the
\* "cancelled" status of line 387; cleanup follows.
TaskCancelWaited(t) ==
  /\ tpc[t] = "cwait"
  /\ running = None
  /\ procs[th[t]] = "dead"
  /\ Goto(t, "cleanup")
  /\ UNCHANGED <<is_downloading, stop_requested, process, process_pid,
                 current_phase, tcancel, th, tline, osVars, nSucc, nErr,
                 nProg, dataStop, ticked>>
  /\ TaskFrame

\* ------------------------------------------- worker: _immediate_force_stop
\* What no step of _immediate_force_stop touches.
ForceStopFrame ==
  UNCHANGED <<is_downloading, stop_requested, current_download_task,
              process, current_phase, mpc, tpc, tcancel, th, tline, running,
              linesLeft, cbVars, histVars, retryVars, textVars, fbVars, killVars>>

\* _immediate_force_stop: kill by the recorded pid, kill through the
\* handle; with a live process behind the handle its exit is awaited
\* before the pid is cleared.
ImmediateForceStop ==
  /\ fsQueued > 0
  /\ running = None
  /\ LET byPid == IF process_pid # None THEN {process_pid} ELSE {}
         byHandle == IF process # None THEN {process} ELSE {}
     IN /\ procs' = KillProcs(byPid \cup byHandle)
        /\ rc' = KillRc(byPid \cup byHandle)
  /\ fsQueued' = fsQueued - 1
  /\ IF Alive(process)
       THEN fsWaiting' = fsWaiting + 1 /\ UNCHANGED process_pid
       ELSE UNCHANGED fsWaiting /\ process_pid' = None
  /\ ForceStopFrame

\* self.state.process_pid = None (line 213) after the awaited exit.
ImmediateForceStopDone ==
  /\ fsWaiting > 0
  /\ running = None
  /\ fsWaiting' = fsWaiting - 1
  /\ process_pid' = None
  /\ UNCHANGED <<fsQueued, procs, rc>>
  /\ ForceStopFrame

\* ------------------------------------------------------- environment
\* An external process ends by itself with exit code code.
ProcExit(p, code) ==
  /\ procs[p] = "alive"
  /\ procs' = [procs EXCEPT ![p] = "dead"]
  /\ rc' = [rc EXCEPT ![p] = code]
  /\ UNCHANGED <<sessVars, mpc, workVars, linesLeft, cbVars, histVars,
                 retryVars, textVars, fbVars, killVars>>

\* ------------------------------------------------------ specification
Next ==
  \/ \E par \in Params : StartDownload(par)
  \/ StopFlag
  \/ StopKill
  \/ StopCancel
  \/ StopSched
  \/ StopCleanup
  \/ \E t \in Tasks :
       \/ \E src \in CookieSources : TaskStart(t, src)
       \/ \E res \in ProbeResults : TaskProbed(t, res)
       \/ TaskSpawn(t)
       \/ TaskSpawnFails(t)
       \/ TaskSpawned(t)
       \/ TaskSetPid(t)
       \/ TaskLoop(t)
       \/ \E line \in Lines : TaskReadLine(t, line)
       \/ TaskReadEOF(t)
       \/ TaskReadTimeout(t)
       \/ TaskCheckStop(t)
       \/ TaskParse(t)
       \/ TaskForceStopped(t)
       \/ TaskPostLoop(t)
       \/ TaskWaited(t)
       \/ TaskCheckSuccess(t)
       \/ TaskEmitSuccess(t)
       \/ TaskException(t)
       \/ TaskCleanup(t)
       \/ TaskCancelled(t)
       \/ TaskCancelWaited(t)
  \/ ImmediateForceStop
  \/ ImmediateForceStopDone
  \/ \E p \in Procs, code \in {"zero", "nonzero"} : ProcExit(p, code)

Spec == Init /\ [][Next]_vars

\* ------------------------------------------------------------ liveness
\* The lines read where termination is checked: one that is a credential
\* error and one that is not.
LiveLines == {CookieLine, OtherLine}

\* A step of task t on the worker loop.
TaskStep(t) ==
  \/ \E src \in CookieSources : TaskStart(t, src)
  \/ \E res \in ProbeResults : TaskProbed(t, res)
  \/ TaskSpawn(t)
  \/ TaskSpawnFails(t)
  \/ TaskSpawned(t)
  \/ TaskSetPid(t)
  \/ TaskLoop(t)
  \/ \E line \in LiveLines : TaskReadLine(t, line)
  \/ TaskReadEOF(t)
  \/ TaskReadTimeout(t)
  \/ TaskCheckStop(t)
  \/ TaskParse(t)
  \/ TaskForceStopped(t)
  \/ TaskPostLoop(t)
  \/ TaskWaited(t)
  \/ TaskCheckSuccess(t)
  \/ TaskEmitSuccess(t)
  \/ TaskException(t)
  \/ TaskCleanup(t)
  \/ TaskCancelled(t)
  \/ TaskCancelWaited(t)

\* A statement of a stop_download call that has begun.
StopStep == StopKill \/ StopCancel \/ StopSched \/ StopCleanup

\* The calls of the main thread, MaxLiveCalls at most and every start with
\* valid parameters, the steps of the worker loop, and the processes,
\* which may exit (the exit code decides nothing here).
LiveNext ==
  \/ NCalls < MaxLiveCalls /\ StartDownload("valid")
  \/ NCalls < MaxLiveCalls /\ StopFlag
  \/ StopStep
  \/ \E t \in Tasks : TaskStep(t)
  \/ ImmediateForceStop
  \/ ImmediateForceStopDone
  \/ \E p \in Procs : ProcExit(p, "zero")

\* The main thread runs a stop_download call it has begun to its end. The
\* worker loop runs its ready callbacks in the order they became ready: a
\* task whose next step is ready again and again, whenever the loop is
\* free, takes it (strong fairness). Nothing is assumed of the calls the
\* user makes, of the external processes nor of _immediate_force_stop.
Fairness ==
  /\ WF_vars(StopStep)
  /\ \A t \in Tasks : SF_vars(TaskStep(t))

LiveSpec == Init /\ [][LiveNext]_vars /\ Fairness

\* ======================================================== RetryHandler
\* The configurations update_retry_config and the settings can give.
Configs ==
  [max_retries : 0..MaxRetries, cookie_refresh_enabled : BOOLEAN,
   individual_download_on_playlist_fail : BOOLEAN]

\* IsPlaylistUrl that finds no playlist.
IsPlaylistUrlNever(u) == FALSE

\* IsPlaylistUrl with the pattern [?&]list= only.
IsPlaylistUrlListOnly(u) ==
  LET url == Lower(u)
  IN In("?list=", url) \/ In("&list=", url)

\* CookieExpiryDetector.is_playlist_url: re.search of [?&]list=,
\* playlist\? and /playlist/ with re.IGNORECASE.
IsPlaylistUrl(u) ==
  LET url == Lower(u)
  IN \/ In("?list=", url) \/ In("&list=", url)
     \/ In("playlist?", url)
     \/ In("/playlist/", url)

\* What no step of execute_with_retry touches.
RetryFrame ==
  UNCHANGED <<mgrVars, textVars, fbVars, killVars, config, rurl, overlap, policy, nUpdates>>

\* The calls in progress.
LiveCalls == {c \in Calls : rpc[c] \notin {"none", "done"}}

\* return b from call c.
Return(c, b) ==
  /\ rpc' = [rpc EXCEPT ![c] = "done"]
  /\ result' = [result EXCEPT ![c] = IF b THEN "true" ELSE "false"]
  /\ retAt' = [retAt EXCEPT ![c] = retry_count']

\* Call c goes on, suspended at pc.
Await(c, pc) ==
  /\ rpc' = [rpc EXCEPT ![c] = pc]
  /\ UNCHANGED <<result, retAt>>

\* self.on_retry_attempt(n, message), a notification that passes the
\* count before its increment.
NotifyStale(c, n, message) ==
  notes' = [notes EXCEPT ![c] = Append(@, <<n - 1, message>>)]

\* self.on_retry_attempt(n, message) called twice.
NotifyTwice(c, n, message) ==
  notes' = [notes EXCEPT ![c] = Append(Append(@, <<n, message>>), <<n, message>>)]

\* self.on_retry_attempt(n, message); the handler's callbacks are the
\* ones DownloadManager._setup_retry_handler sets.
Notify(c, n, message) ==
  notes' = [notes EXCEPT ![c] = Append(@, <<n, message>>)]

\* await asyncio.sleep(self.config.retry_delay) begins.
Sleep(c) == sleeps' = [sleeps EXCEPT ![c] = @ + 1]

\* The head of the while loop (line 85): another attempt, or the return
\* of line 108.
WhileHead(c) ==
  IF retry_count' <= config.max_retries
    THEN Await(c, "attempt")
    ELSE Return(c, FALSE)

\* execute_with_retry(download_func, url) is called: retry_count = 0, the
\* first await download_func().
ExecuteWithRetry(c, u) ==
  /\ rpc[c] = "none"
  /\ \A d \in Calls : d < c => rpc[d] # "none"
  /\ rurl' = [rurl EXCEPT ![c] = u]
  /\ policy' = [policy EXCEPT ![c] = config]
  /\ overlap' = [d \in Calls |->
                   IF d = c THEN LiveCalls # {} ELSE overlap[d] \/ d \in LiveCalls]
  /\ retry_count' = 0
  /\ WhileHead(c)
  /\ UNCHANGED <<mgrVars, textVars, fbVars, killVars, config, last_error, outcomes, notes,
                 sleeps, refreshes, fallbacks, nUpdates>>

\* download_func() returned: return True (line 88).
AttemptSucceeds(c) ==
  /\ rpc[c] \in {"attempt", "cattempt"}
  /\ outcomes' = [outcomes EXCEPT ![c] = Append(@, "ok")]
  /\ UNCHANGED <<retry_count, last_error, notes, sleeps, refreshes,
                 fallbacks>>
  /\ Return(c, TRUE)
  /\ RetryFrame

\* MayRetry with <= for <.
MayRetryInclusive == retry_count <= config.max_retries

\* if self.retry_count < self.config.max_retries (lines 98 and 125).
MayRetry == retry_count < config.max_retries

\* download_func() raised an error is_cookie_expired rejects (lines
\* 97-106): count, notify and sleep, or return False.
AttemptFailsTransient(c) ==
  /\ rpc[c] = "attempt"
  /\ outcomes' = [outcomes EXCEPT ![c] = Append(@, "transient")]
  /\ last_error' = Err(c, Len(outcomes[c]) + 1, "transient")
  /\ IF MayRetry
       THEN /\ retry_count' = retry_count + 1
            /\ Notify(c, retry_count', last_error')
            /\ Sleep(c)
            /\ Await(c, "sleep")
       ELSE /\ UNCHANGED <<retry_count, notes, sleeps>>
            /\ Return(c, FALSE)
  /\ UNCHANGED <<refreshes, fallbacks>>
  /\ RetryFrame

\* The retry delay of line 103 is over: back to the head of the loop.
SleepDone(c) ==
  /\ rpc[c] = "sleep"
  /\ UNCHANGED <<retry_count, last_error, outcomes, notes, sleeps,
                 refreshes, fallbacks>>
  /\ WhileHead(c)
  /\ RetryFrame

\* HandleCookieExpiry with the retry after a granted refresh made whatever
\* retry_count is.
HandleCookieExpiryUngated(c, ans) ==
  IF IsPlaylistUrl(rurl[c]) /\ config.individual_download_on_playlist_fail
    THEN /\ fallbacks' = [fallbacks EXCEPT ![c] = Append(@, <<rurl[c], ans>>)]
         /\ UNCHANGED <<retry_count, notes, sleeps, refreshes>>
         /\ Return(c, ans)
    ELSE IF config.cookie_refresh_enabled
      THEN /\ refreshes' = [refreshes EXCEPT ![c] = Append(@, ans)]
           /\ UNCHANGED fallbacks
           /\ IF ans
                THEN /\ retry_count' = retry_count + 1
                     /\ Notify(c, retry_count', RefreshRetryMessage)
                     /\ Sleep(c)
                     /\ Await(c, "csleep")
                ELSE /\ UNCHANGED <<retry_count, notes, sleeps>>
                     /\ Return(c, FALSE)
      ELSE /\ UNCHANGED <<retry_count, notes, sleeps, refreshes, fallbacks>>
           /\ Return(c, FALSE)

\* _handle_cookie_expiry(url, download_func) in call c; ans is what the
\* collaborator it asks answers. A playlist url with the fallback enabled
\* goes to on_individual_download, whose answer is returned; else, with
\* the refresh enabled, on_cookie_refresh_request is asked, and a granted
\* refresh with retries left is followed by one retry (lines 125-132);
\* else return False.
HandleCookieExpiry(c, ans) ==
  IF IsPlaylistUrl(rurl[c]) /\ config.individual_download_on_playlist_fail
    THEN /\ fallbacks' = [fallbacks EXCEPT ![c] = Append(@, <<rurl[c], ans>>)]
         /\ UNCHANGED <<retry_count, notes, sleeps, refreshes>>
         /\ Return(c, ans)
    ELSE IF config.cookie_refresh_enabled
      THEN /\ refreshes' = [refreshes EXCEPT ![c] = Append(@, ans)]
           /\ UNCHANGED fallbacks
           /\ IF ans /\ MayRetry
                THEN /\ retry_count' = retry_count + 1
                     /\ Notify(c, retry_count', RefreshRetryMessage)
                     /\ Sleep(c)
                     /\ Await(c, "csleep")
                ELSE /\ UNCHANGED <<retry_count, notes, sleeps>>
                     /\ Return(c, FALSE)
      ELSE /\ UNCHANGED <<retry_count, notes, sleeps, refreshes, fallbacks>>
           /\ Return(c, FALSE)

\* download_func() raised an error is_cookie_expired accepts (lines
\* 94-95).
AttemptFailsCookie(c, ans) ==
  /\ rpc[c] = "attempt"
  /\ outcomes' = [outcomes EXCEPT ![c] = Append(@, "cookie")]
  /\ last_error' = Err(c, Len(outcomes[c]) + 1, "cookie")
  /\ HandleCookieExpiry(c, ans)
  /\ RetryFrame

\* The retry delay of line 130 is over: await download_func() (line 132).
CookieSleepDone(c) ==
  /\ rpc[c] = "csleep"
  /\ Await(c, "cattempt")
  /\ UNCHANGED <<retry_count, last_error, outcomes, notes, sleeps,
                 refreshes, fallbacks>>
  /\ RetryFrame

\* The failure of the retry after a refresh handled as the loop handles a
\* transient failure.
AfterRefreshFailureRetried(c) ==
  IF MayRetry
    THEN /\ retry_count' = retry_count + 1
         /\ Notify(c, retry_count', last_error')
         /\ Sleep(c)
         /\ Await(c, "sleep")
    ELSE /\ UNCHANGED <<retry_count, notes, sleeps>>
         /\ Return(c, FALSE)

\* After the except of lines 134-135: return False (line 137).
AfterRefreshFailure(c) ==
  /\ UNCHANGED <<retry_count, notes, sleeps>>
  /\ Return(c, FALSE)

\* The download_func() of line 132 raised an error of the kind.
CookieAttemptFails(c, kind) ==
  /\ rpc[c] = "cattempt"
  /\ outcomes' = [outcomes EXCEPT ![c] = Append(@, kind)]
  /\ last_error' = Err(c, Len(outcomes[c]) + 1, kind)
  /\ AfterRefreshFailure(c)
  /\ UNCHANGED <<refreshes, fallbacks>>
  /\ RetryFrame

RetryInit ==
  /\ ManagerInit
  /\ config \in Configs
  /\ RetryHandlerInit
  /\ TextIdle
  /\ FallbackIdle
  /\ KillIdle

RetryNext ==
  \/ \E c \in Calls, u \in Urls : ExecuteWithRetry(c, u)
  \/ \E c \in Calls :
       \/ AttemptSucceeds(c)
       \/ AttemptFailsTransient(c)
       \/ \E ans \in BOOLEAN : AttemptFailsCookie(c, ans)
       \/ SleepDone(c)
       \/ CookieSleepDone(c)
       \/ \E kind \in {"transient", "cookie"} : CookieAttemptFails(c, kind)

RetrySpec == RetryInit /\ [][RetryNext]_vars

\* DownloadManager.update_retry_config(enable_retry, max_retries,
\* enable_individual_download), which YouTubeDownloaderApp._start_download
\* calls on the main thread before every start_download: it assigns to
\* the RetryConfig object the RetryHandler holds.
UpdateRetryConfig(enable_retry, max_retries, enable_individual_download) ==
  /\ nUpdates < MaxUpdates
  /\ nUpdates' = nUpdates + 1
  /\ config' = [config EXCEPT
                  !.max_retries = IF enable_retry THEN max_retries ELSE 0,
                  !.individual_download_on_playlist_fail =
                    enable_individual_download]
  /\ UNCHANGED <<mgrVars, textVars, fbVars, killVars, retry_count, last_error, rpc, rurl,
                 outcomes, notes, sleeps, refreshes, fallbacks, result,
                 retAt, overlap, policy>>

\* execute_with_retry calls and the settings updates of the main thread.
ConfigNext ==
  \/ RetryNext
  \/ \E enable_retry \in BOOLEAN, max_retries \in 1..MaxRetries,
        enable_individual_download \in BOOLEAN :
        UpdateRetryConfig(enable_retry, max_retries,
                          enable_individual_download)

\* The manager as constructed: the RetryHandler holds RetryConfig().
ConfigInit ==
  /\ ManagerInit
  /\ config = RetryConfigDefault
  /\ RetryHandlerInit
  /\ TextIdle
  /\ FallbackIdle
  /\ KillIdle

ConfigSpec == ConfigInit /\ [][ConfigNext]_vars

\* ------------------------------------------------------ calls on text
\* PlaylistExtractor._is_valid_youtube_url: re.match of
\* https?://(?:(?:www|music|gaming)\.)?youtube\.com/|https?://youtu\.be/
IsValidYoutubeUrl(url) ==
  \E scheme \in {"http://", "https://"} :
    \/ \E sub \in {"", "www.", "music.", "gaming."} :
         StartsWith(url, scheme \o sub \o "youtube.com/")
    \/ StartsWith(url, scheme \o "youtu.be/")

\* The (url, title) pairs extract_video_info makes of the lines of the
\* output (lines 211-214).
RECURSIVE VideoInfo(_)
VideoInfo(lines) ==
  IF lines = <<>> THEN <<>>
  ELSE LET line == Head(lines)
           i == Find(line, "|")
       IN (IF In("|", line)
             THEN <<<<Strip(SubSeq(line, 1, i - 1)),
                      Strip(SubSeq(line, i + 1, Len(line)))>>>>
             ELSE <<>>)
            \o VideoInfo(Tail(lines))

\* PlaylistExtractor.extract_video_info, given whether the process could
\* be launched, its exit code and its standard output.
ExtractVideoInfo(launched, returncode, stdout) ==
  IF launched /\ returncode = 0
    THEN VideoInfo(SplitOn(Strip(stdout), "\n"))
    ELSE <<>>

\* The sequences of at most n elements of S.
SeqsUpTo(S, n) == UNION {[1..k -> S] : k \in 0..n}

\* "".join(ss).
RECURSIVE Concat(_)
Concat(ss) == IF ss = <<>> THEN "" ELSE Head(ss) \o Concat(Tail(ss))

\* The output of a process as its lines, each ended by a newline.
RECURSIVE JoinLines(_)
JoinLines(ss) ==
  IF ss = <<>> THEN "" ELSE Head(ss) \o "\n" \o JoinLines(Tail(ss))

\* The pieces the progress lines given to _detect_download_phase are made
\* of.
AudioExtensions == {".m4a", ".aac", ".opus", ".mp3"}
VideoExtensions == {".mp4", ".webm"}
MergeMarkers == {"[ffmpeg] ", "Merging formats into ", "Post-processing "}
DownloadMarker == "[download] "
PhaseAtoms ==
  {DownloadMarker, "clip", "video ", "audio ", "50% of 3.2MiB "}
    \cup AudioExtensions \cup VideoExtensions \cup MergeMarkers

\* The pieces the error lines given to _is_cookie_error are made of.
UnavailableMarkers == {"Video unavailable", "VIDEO UNAVAILABLE"}
CompanionPhrases == {" Private", " for members", ", Sign In to access"}
NeutralPhrases == {"ERROR: ", " in your country"}
CookieAtoms ==
  UnavailableMarkers \cup CompanionPhrases \cup NeutralPhrases
    \cup {" Access denied"}

\* The parts of the urls given to is_playlist_url and
\* _is_valid_youtube_url.
UrlHosts ==
  {"https://www.youtube.com", "https://music.youtube.com",
   "https://gaming.youtube.com", "http://youtube.com", "https://youtu.be",
   "https://example.youtube.com", "https://vimeo.com", "ftp://youtube.com"}
PlaylistPaths == {"/playlist", "/playlist/PLtest123"}
UrlPaths == {"", "/watch", "/abc", "/myplaylist"} \cup PlaylistPaths
ListQueries == {"?list=XYZ", "?v=abc&list=XYZ", "?LIST=XYZ"}
UrlQueries == {"", "?v=abc", "?v=abc&t=10"} \cup ListQueries

\* The lines yt-dlp --flat-playlist --print "%(url)s|%(title)s" writes:
\* well formed ones, of a YouTube url or of another, and malformed ones.
ValidOutLines ==
  {"https://www.youtube.com/watch?v=1|First",
   " https://youtu.be/2 | Second | part "}
ForeignOutLines == {"https://vimeo.com/3|Third", "NA|Fourth"}
MalformedOutLines == {"https://www.youtube.com/watch?v=5", "|Sixth", ""}
OutLines == ValidOutLines \cup ForeignOutLines \cup MalformedOutLines

Args ==
  {Arg("phase_line", a, Concat(a), TRUE, 0) :
     a \in SeqsUpTo(PhaseAtoms, MaxAtoms)}
    \cup {Arg("error_line", a, Concat(a), TRUE, 0) :
            a \in SeqsUpTo(CookieAtoms, MaxAtoms)}
    \cup {Arg("url", <<h, p, q>>, h \o p \o q, TRUE, 0) :
            h \in UrlHosts, p \in UrlPaths, q \in UrlQueries}
    \cup {Arg("stdout", a, JoinLines(a), l, r) :
            a \in SeqsUpTo(OutLines, MaxOutLines), l \in BOOLEAN,
            r \in {0, 1}}

Call(fn, value) ==
  /\ ret' = [fn |-> fn, value |-> value]
  /\ UNCHANGED <<arg, mgrVars, retryVars, fbVars, killVars>>

CallDetectDownloadPhase ==
  /\ arg.kind \in {"phase_line", "error_line"}
  /\ Call("_detect_download_phase", DetectDownloadPhase(arg.text))

\* _parse_progress_line on the line, first of the calls, with every
\* current_phase a session can be in.
CallParseProgressLine ==
  /\ arg.kind = "phase_line"
  /\ ret = NoRet
  /\ LET f == ParseFacts(arg.text)
     IN \E before \in {"preparing", "video", "audio", "merging"} :
          Call("_parse_progress_line", ParseProgressText(before, f))

CallIsCookieError ==
  /\ arg.kind \in {"phase_line", "error_line"}
  /\ Call("_is_cookie_error", IsCookieError(arg.text))

CallIsPlaylistUrl ==
  /\ arg.kind = "url"
  /\ Call("is_playlist_url", IsPlaylistUrl(arg.text))

CallIsValidYoutubeUrl ==
  /\ arg.kind = "url"
  /\ Call("_is_valid_youtube_url", IsValidYoutubeUrl(arg.text))

CallExtractVideoInfo ==
  /\ arg.kind = "stdout"
  /\ Call("extract_video_info",
          ExtractVideoInfo(arg.launched, arg.returncode, arg.text))

TextInit ==
  /\ ManagerInit
  /\ config = RetryConfigDefault
  /\ RetryHandlerInit
  /\ arg \in Args
  /\ ret = NoRet
  /\ FallbackIdle
  /\ KillIdle

TextNext ==
  \/ CallDetectDownloadPhase
  \/ CallParseProgressLine
  \/ CallIsCookieError
  \/ CallIsPlaylistUrl
  \/ CallIsValidYoutubeUrl
  \/ CallExtractVideoInfo

TextSpec == TextInit /\ [][TextNext]_vars

\* ------------------------------------------- _on_individual_download
\* The (url, title) pairs extract_video_info can return.
PlaylistItems == {"a", "b"}

\* What becomes of one _execute_download: the process exits with code 0;
\* it exits with another code (process.wait() returns all the same); the
\* pre-flight probe rejects the video (return at line 411); the read loop
\* is left on stop_requested; an exception is raised.
ItemOutcomes == {"completed", "failed", "rejected", "stopped", "raises"}

\* What no step of _on_individual_download touches.
FallbackFrame ==
  UNCHANGED <<is_downloading, current_download_task, process, process_pid,
              current_phase, mpc, workVars, osVars, cbVars, histVars,
              retryVars, textVars, killVars>>

\* _on_individual_download(playlist_url) is called: the status callback,
\* then extract_video_info is awaited.
OnIndividualDownload ==
  /\ fpc = "none"
  /\ fpc' = "extract"
  /\ UNCHANGED <<stop_requested, video_info, item, success_count, begun,
                 errors, returned>>
  /\ FallbackFrame

\* The head of the for loop (lines 768-776) and its end (lines 788-791):
\* past the last item, or with stop_requested, return success_count > 0;
\* else _execute_download of the next item is awaited.
FallbackHead ==
  IF item + 1 > Len(video_info) \/ stop_requested
    THEN /\ fpc' = "done"
         /\ returned' = IF success_count > 0 THEN "true" ELSE "false"
         /\ UNCHANGED <<item, begun>>
    ELSE /\ fpc' = "download"
         /\ item' = item + 1
         /\ begun' = Append(begun, <<video_info[item + 1], "begun">>)
         /\ UNCHANGED returned

\* One pass through the head of the loop.
FallbackNextItem ==
  /\ fpc = "head"
  /\ FallbackHead
  /\ UNCHANGED <<stop_requested, video_info, success_count, errors>>
  /\ FallbackFrame

\* extract_video_info returned info: nothing (lines 757-760: the error
\* callback, return False), or the items, and the loop begins.
ExtractReturns(info) ==
  /\ fpc = "extract"
  /\ video_info' = info
  /\ IF info = <<>>
       THEN /\ errors' = Append(errors, <<"no_videos", "">>)
            /\ fpc' = "done"
            /\ returned' = "false"
       ELSE /\ fpc' = "head"
            /\ UNCHANGED <<errors, returned>>
  /\ UNCHANGED <<stop_requested, item, success_count, begun>>
  /\ FallbackFrame

\* success_count += 1 (line 784) is reached: _execute_download returned.
ItemCounted(outcome) == outcome # "raises"

\* The _execute_download of the item at hand has ended as outcome says:
\* counted as a success when it returned, reported by the error callback
\* when it raised (lines 786-789); the probe's rejection has called the
\* error callback itself (_check_if_cookies_needed).
ItemEnds(outcome) ==
  /\ fpc = "download"
  /\ outcome = "stopped" => stop_requested
  /\ begun' = [begun EXCEPT ![Len(begun)] = <<@[1], outcome>>]
  /\ success_count' = IF ItemCounted(outcome) THEN success_count + 1
                       ELSE success_count
  /\ errors' = IF outcome \in {"raises", "rejected"}
                 THEN Append(errors, <<outcome, video_info[item]>>)
                 ELSE errors
  /\ fpc' = "head"
  /\ UNCHANGED <<stop_requested, video_info, item, returned>>
  /\ FallbackFrame

\* stop_download's first statement on the main thread, during the
\* fallback.
FallbackStop ==
  /\ fpc \notin {"none", "done"}
  /\ ~stop_requested
  /\ stop_requested' = TRUE
  /\ UNCHANGED fbVars
  /\ FallbackFrame

FallbackNext ==
  \/ OnIndividualDownload
  \/ \E info \in SeqsUpTo(PlaylistItems, MaxItems) : ExtractReturns(info)
  \/ FallbackNextItem
  \/ \E outcome \in ItemOutcomes : ItemEnds(outcome)
  \/ FallbackStop

FallbackSpec == Init /\ [][FallbackNext]_vars

\* ------------------------------------------------- the termination paths
\* _force_stop_process, _immediate_force_stop and
\* _kill_process_immediately, one call at a time, with the outcomes of
\* their OS calls: done, "no such process" (ProcessLookupError,
\* psutil.NoSuchProcess), or another error (PermissionError,
\* TimeoutExpired, FileNotFoundError...).
TerminationPaths ==
  {"_force_stop_process", "_immediate_force_stop",
   "_kill_process_immediately"}
Platforms == {"posix", "win32"}
OsOutcomes == {"ok", "no_such_process", "os_error"}

KillFrame == UNCHANGED <<mgrVars, retryVars, textVars, fbVars, kpath, kplat>>

\* The OS call of step with outcome out is made.
OsCall(step, out) == kcalls' = Append(kcalls, <<step, out>>)

\* self.status_callback(...) of step: a failure text or a result text.
StatusCallback(step, kind) == kcb' = Append(kcb, <<"status", step, kind>>)

\* One of the paths is called, on a platform, with state.process_pid and
\* state.process as they are.
TerminationCall(path, plat, pid, proc) ==
  /\ kpc = "idle"
  /\ kpath' = path
  /\ kplat' = plat
  /\ kpid' = pid
  /\ kproc' = proc
  /\ kpc' = IF path = "_force_stop_process" THEN "handle" ELSE "pid"
  /\ UNCHANGED <<kcalls, kcb, mgrVars, retryVars, textVars, fbVars>>

\* The kill by the recorded pid: os.kill(pid, SIGKILL) or taskkill /PID
\* (which raises nothing when the process is gone).
\* _immediate_force_stop passes on ProcessLookupError and on every other
\* exception; _kill_process_immediately reports every exception, and on
\* win32 the return code, through the status callback.
KillByPid(out) ==
  /\ kpc = "pid"
  /\ out = "no_such_process" => kplat = "posix"
  /\ IF kpid = None
       THEN UNCHANGED <<kcalls, kcb>>
       ELSE /\ OsCall("pid", out)
            /\ IF kpath = "_kill_process_immediately"
                 THEN IF out # "ok" THEN StatusCallback("pid", "failed")
                      ELSE IF kplat = "win32"
                        THEN StatusCallback("pid", "result")
                      ELSE UNCHANGED kcb
                 ELSE UNCHANGED kcb
  /\ kpc' = IF kpath = "_kill_process_immediately" THEN "name" ELSE "handle"
  /\ UNCHANGED <<kpid, kproc>>
  /\ KillFrame

\* _kill_process_immediately, the kill by name (taskkill /IM, pkill -f)
\* of yt-dlp and of ffmpeg: subprocess.run raises for no missing process.
KillByName(out) ==
  /\ kpc = "name"
  /\ out # "no_such_process"
  /\ OsCall("name", out)
  /\ IF out # "ok" THEN StatusCallback("name", "failed")
     ELSE IF kplat = "win32" THEN StatusCallback("name", "result")
     ELSE UNCHANGED kcb
  /\ kpc' = "handle"
  /\ UNCHANGED <<kpid, kproc>>
  /\ KillFrame

\* The kill through the handle. _force_stop_process (returncode None
\* only): on win32 the psutil kill of the process tree, and process.kill()
\* if that raises; process.wait() after a kill that did not raise; every
\* exception passed on. _immediate_force_stop (returncode None only):
\* process.kill() and the wait, every exception passed on.
\* _kill_process_immediately (any handle): process.kill(), an exception
\* reported through the status callback.
KillByHandle(tree, out) ==
  /\ kpc = "handle"
  /\ LET byTree == kpath = "_force_stop_process" /\ kplat = "win32"
         attempted == IF kpath = "_kill_process_immediately"
                        THEN kproc # "none" ELSE kproc = "running"
         killed == attempted /\ (IF byTree /\ tree = "ok" THEN TRUE
                                 ELSE out = "ok")
     IN /\ byTree <=> tree # "unused"
        /\ kcalls' = IF ~attempted THEN kcalls
                     ELSE IF byTree /\ tree = "ok"
                       THEN Append(kcalls, <<"tree", tree>>)
                     ELSE IF byTree
                       THEN kcalls \o <<(<<"tree", tree>>), <<"handle", out>>>>
                     ELSE Append(kcalls, <<"handle", out>>)
        /\ IF attempted /\ kpath = "_kill_process_immediately" /\ out # "ok"
             THEN StatusCallback("handle", "failed")
             ELSE UNCHANGED kcb
        /\ kproc' = IF killed /\ kproc = "running" THEN "exited" ELSE kproc
  /\ kpc' = IF kpath = "_force_stop_process" THEN "done" ELSE "clear"
  /\ UNCHANGED kpid
  /\ KillFrame

\* self.state.process_pid = None (lines 213 and 275).
KillClear ==
  /\ kpc = "clear"
  /\ kpid' = None
  /\ kpc' = IF kpath = "_kill_process_immediately" THEN "verify" ELSE "done"
  /\ UNCHANGED <<kproc, kcalls, kcb>>
  /\ KillFrame

\* _verify_process_stopped: tasklist or pgrep, and a status for each of
\* its outcomes.
VerifyProcessStopped(out) ==
  /\ kpc = "verify"
  /\ OsCall("verify", out)
  /\ StatusCallback("verify", IF out = "os_error" THEN "failed" ELSE out)
  /\ kpc' = "done"
  /\ UNCHANGED <<kpid, kproc>>
  /\ KillFrame

KillNext ==
  \/ \E path \in TerminationPaths, plat \in Platforms, pid \in {None, 1},
        proc \in {"none", "running", "exited"} :
       TerminationCall(path, plat, pid, proc)
  \/ \E out \in OsOutcomes : KillByPid(out)
  \/ \E out \in OsOutcomes : KillByName(out)
  \/ \E tree \in OsOutcomes \cup {"unused"}, out \in OsOutcomes :
       KillByHandle(tree, out)
  \/ KillClear
  \/ \E out \in {"stopped", "remains", "os_error"} : VerifyProcessStopped(out)

KillSpec == Init /\ [][KillNext]_vars

\* ============================================================== claims

\* The external processes session t has started.
Attempts(t) == IF procs[t] = "unborn" THEN 0 ELSE 1

\* Session t ended in a transient failure: its process exited non-zero by
\* itself, no credential line was parsed, no stop was requested.
TransientFailure(t) ==
  tpc[t] = "done" /\ rc[t] = "nonzero" /\ ~dataStop[t] /\ nStops = 0

\* C1: a session that ends in a transient failure with no stop requested
\* has been re-attempted max_retries times, has reported failure through
\* the error callback and has emitted no success callback.
C1_TransientFailureRetriedThenReported ==
  \A t \in Tasks :
    TransientFailure(t) =>
      /\ Attempts(t) = MaxRetries + 1
      /\ nErr[t] >= 1
      /\ nSucc[t] = 0

\* C2: at most one download task and at most one external download
\* process is live at any time.
C2_AtMostOneTaskAndProcess ==
  /\ Cardinality(LiveTasks) <= 1
  /\ Cardinality(AliveProcs) <= 1

\* A step in which start_download is called with valid parameters.
StartValidStep ==
  /\ nSessions' + nRejects' = nSessions + nRejects + 1
  /\ lastMain' \in {"start", "start_after_idle_stop"}

\* C3: start_download with valid parameters while is_downloading is true
\* returns False, emits exactly one error callback, schedules no task and
\* changes no field of the session.
C3_BusyStartLeavesSession ==
  [][(is_downloading /\ StartValidStep) =>
       /\ lastRet' = FALSE
       /\ TotalErr' = TotalErr + 1
       /\ TotalSucc' = TotalSucc
       /\ tpc' = tpc
       /\ sessVars' = sessVars]_vars

\* C3 witness: a valid start_download has just been refused as busy.
C3_Witness ==
  /\ mpc = "idle"
  /\ lastMain = "start"
  /\ ~lastRet
  /\ is_downloading
  /\ startErr = 1
  /\ LiveTasks # {}

\* C4: is_downloading false implies no process handle and no pid.
C4_NotDownloadingImpliesNoProcess ==
  ~is_downloading => (process = None /\ process_pid = None)

\* C5: a line parsed while stop_requested is true changes neither
\* current_phase nor the number of progress callbacks.
C5_NoParseEffectAfterStop ==
  [][\A t \in Tasks :
       (tpc[t] = "parse" /\ tpc'[t] # "parse" /\ stop_requested) =>
         (current_phase' = current_phase /\ nProg' = nProg)]_vars

\* C6: once stop_download has been called on a session, that session
\* emits no success callback.
C6_NoSuccessAfterStop ==
  [][\A t \in Tasks : userStop[t] => nSucc'[t] = nSucc[t]]_vars

\* C7: a session that ended by cancellation (stop_download, or a
\* credential line) has emitted neither the error nor the success
\* callback, and, once the main thread is in no call, a "stopped" status
\* has been emitted. Stated of the runs in which one download was
\* started, so that no other session's flags are involved.
C7_CancelledSessionOnlyStopped ==
  \A t \in Tasks :
    (tpc[t] = "done" /\ (userStop[t] \/ dataStop[t]) /\ mpc = "idle"
       /\ nSessions = 1) =>
      /\ nErr[t] = 0
      /\ nSucc[t] = 0
      /\ nStopped >= 1

\* C8: from the return of stop_download to the next call of the main
\* thread, process_pid is None, and the process whose pid the call found
\* recorded is not alive.
C8_PidClearedAfterStop ==
  (mpc = "idle" /\ lastMain = "stop") =>
    /\ process_pid = None
    /\ (stopPid # None => procs[stopPid] # "alive")

\* C9: stop_download called while idle emits no error and no success
\* callback and leaves is_downloading false, process and process_pid None
\* at each of its steps; on return the session is the one it found with
\* stop_requested set, so a second call in a row changes nothing; a
\* start_download with valid parameters that follows is accepted.
C9_IdleStopIsNoOp ==
  /\ (idleStop /\ mpc # "idle") =>
       /\ ~is_downloading
       /\ process = None
       /\ process_pid = None
       /\ TotalErr = entry.errors
       /\ TotalSucc = entry.successes
  /\ (idleStop /\ mpc = "idle" /\ lastMain = "stop") =>
       Snapshot = [entry EXCEPT !.stop_requested = TRUE]
  /\ lastMain = "start_after_idle_stop" => lastRet

\* C9 witness: two idle stop_download calls in a row, the second after a
\* session has run, then a start_download that was accepted.
C9_Witness ==
  /\ lastMain = "start_after_idle_stop"
  /\ lastRet
  /\ nStops = 2
  /\ idleStop
  /\ entry.stop_requested

\* C10: in a stop_download call stop_requested is set first, the kill
\* sweep comes before the cancellation, the scheduling of the force-stop
\* and the cleanup, and every call that has returned has done its sweep.
C10_KillBeforeReturn ==
  /\ \A i \in 1..Len(stopTrace) :
       /\ stopTrace[i] = "flag" <=> i = 1
       /\ stopTrace[i] \in {"cancel", "sched", "cleanup"} =>
            \E j \in 1..(i - 1) : stopTrace[j] = "kill"
  /\ mpc = "idle" => nSweeps = nStops
  /\ (mpc = "idle" /\ lastMain = "stop") => stopTrace[Len(stopTrace)] = "cleanup"

\* C10 witness: stop_download has returned, its sweep done, while the
\* session's task is still suspended in the worker.
C10_Witness ==
  /\ mpc = "idle"
  /\ lastMain = "stop"
  /\ nSweeps = 1
  /\ \E t \in Tasks : tpc[t] \in AwaitPcs /\ tcancel[t] = "queued"

\* ------------------------------------------------- RetryHandler claims
\* The outcomes o are k transient failures, then a success.
TransientsThenOk(o, k) ==
  /\ Len(o) = k + 1
  /\ \A i \in 1..k : o[i] = "transient"
  /\ o[k + 1] = "ok"

\* The outcomes o are transient failures only.
AllTransient(o) == \A i \in 1..Len(o) : o[i] = "transient"

\* Call c has returned and no other call was in progress during it.
ReturnedAlone(c) == rpc[c] = "done" /\ ~overlap[c]

\* C11: a call whose download_func fails k <= max_retries times with a
\* transient error and then succeeds returns True with retry_count = k,
\* after exactly the notifications 1..k, each with the error of the
\* attempt that had just failed, and k retry delays.
C11_RetriesThenSuccess ==
  \A c \in Calls : \A k \in 0..config.max_retries :
    (ReturnedAlone(c) /\ TransientsThenOk(outcomes[c], k)) =>
      /\ result[c] = "true"
      /\ retAt[c] = k
      /\ notes[c] = [i \in 1..k |-> <<i, Err(c, i, "transient")>>]
      /\ sleeps[c] = k

\* C11 witness: two transient failures, then the success, of the second
\* call made on the handler.
C11_Witness ==
  /\ ReturnedAlone(2)
  /\ TransientsThenOk(outcomes[2], 2)
  /\ result[2] = "true"
  /\ Len(notes[2]) = 2

\* C12: retry_count stays within 0..max_retries in every state; a call
\* whose download_func always fails with a transient error returns False
\* after max_retries + 1 attempts with retry_count = max_retries.
C12_RetryCountBounded ==
  /\ retry_count \in 0..config.max_retries
  /\ \A c \in Calls :
       (ReturnedAlone(c) /\ AllTransient(outcomes[c])) =>
         /\ result[c] = "false"
         /\ retAt[c] = config.max_retries
         /\ Len(outcomes[c]) = config.max_retries + 1

\* C12 witness: the default max_retries = 3, four transient failures.
C12_Witness ==
  /\ config.max_retries = MaxRetries
  /\ ReturnedAlone(1)
  /\ AllTransient(outcomes[1])
  /\ Len(outcomes[1]) = MaxRetries + 1
  /\ result[1] = "false"

\* The step in which an attempt of call c in the loop fails with a
\* credential error.
CredentialFailureStep(c) ==
  rpc[c] = "attempt" /\ outcomes'[c] = Append(outcomes[c], "cookie")

\* Call c's credential errors go to the playlist fallback.
RoutedToFallback(c) ==
  rurl[c] = PlaylistUrl /\ config.individual_download_on_playlist_fail

BoolResult(b) == IF b THEN "true" ELSE "false"

C14_RefreshThenSingleRetry ==
  [][\A c \in Calls :
       /\ (/\ CredentialFailureStep(c)
           /\ ~RoutedToFallback(c)
           /\ config.cookie_refresh_enabled
           /\ retry_count < config.max_retries
           /\ refreshes'[c] = Append(refreshes[c], TRUE)) =>
            /\ retry_count' = retry_count + 1
            /\ Len(notes'[c]) = Len(notes[c]) + 1
            /\ sleeps'[c] = sleeps[c] + 1
            /\ rpc'[c] = "csleep"
            /\ outcomes'[c] = Append(outcomes[c], "cookie")
       /\ (rpc[c] = "csleep" /\ rpc'[c] # "csleep") =>
            rpc'[c] = "cattempt" /\ outcomes'[c] = outcomes[c]
       /\ (rpc[c] = "cattempt" /\ outcomes'[c] # outcomes[c]) =>
            /\ Len(outcomes'[c]) = Len(outcomes[c]) + 1
            /\ rpc'[c] = "done"
            /\ refreshes'[c] = refreshes[c]
            /\ outcomes'[c][Len(outcomes'[c])] # "ok" => result'[c] = "false"
       /\ Len(refreshes[c]) <= 1]_vars

\* C14 witness: a credential error, a granted refresh, the one retry fails
\* with a transient error, False.
C14_Witness ==
  /\ rpc[1] = "done"
  /\ outcomes[1] = <<"cookie", "transient">>
  /\ refreshes[1] = <<TRUE>>
  /\ config.max_retries = MaxRetries
  /\ result[1] = "false"

\* C15 as stated: with the refresh granted, the credential error is
\* followed by the single retry whatever retry_count is, and handling it
\* leaves retry_count as it was.
C15_CredentialIndependentOfCount ==
  [][\A c \in Calls :
       (/\ CredentialFailureStep(c)
        /\ ~RoutedToFallback(c)
        /\ config.cookie_refresh_enabled
        /\ refreshes'[c] = Append(refreshes[c], TRUE)) =>
         rpc'[c] = "csleep" /\ retry_count' = retry_count]_vars

\* C15 amended: a credential error never goes through the loop's retry
\* (the "sleep" of line 103); whatever retry_count is, it is routed to
\* the fallback, or else to a refresh request when the refresh is
\* enabled; the single retry after a granted refresh is made exactly when
\* retry_count < max_retries, and it increments retry_count.
C15_CredentialGatedByCount ==
  [][\A c \in Calls :
       CredentialFailureStep(c) =>
         /\ rpc'[c] # "sleep"
         /\ RoutedToFallback(c) =>
              Len(fallbacks'[c]) = Len(fallbacks[c]) + 1 /\ rpc'[c] = "done"
         /\ (~RoutedToFallback(c) /\ config.cookie_refresh_enabled) =>
              /\ Len(refreshes'[c]) = Len(refreshes[c]) + 1
              /\ LET granted == refreshes'[c][Len(refreshes'[c])]
                 IN IF granted /\ retry_count < config.max_retries
                      THEN rpc'[c] = "csleep"
                           /\ retry_count' = retry_count + 1
                      ELSE rpc'[c] = "done" /\ result'[c] = "false"
                           /\ retry_count' = retry_count
         /\ (~RoutedToFallback(c) /\ ~config.cookie_refresh_enabled) =>
              rpc'[c] = "done" /\ result'[c] = "false"]_vars

\* C15 witness: the transient retries used up, then a credential error
\* whose refresh was granted: no retry, False.
C15_Witness ==
  /\ config.max_retries = MaxRetries
  /\ ReturnedAlone(1)
  /\ Len(outcomes[1]) = MaxRetries + 1
  /\ outcomes[1][MaxRetries + 1] = "cookie"
  /\ refreshes[1] = <<TRUE>>
  /\ retAt[1] = MaxRetries
  /\ result[1] = "false"

\* C16: a call makes the attempts it would make alone, whatever other
\* call is interleaved with it: with transient failures only, it returns
\* after max_retries + 1 attempts and max_retries notifications.
C16_CallsDoNotShareCount ==
  \A c \in Calls :
    (rpc[c] = "done" /\ AllTransient(outcomes[c])) =>
      /\ Len(outcomes[c]) = config.max_retries + 1
      /\ Len(notes[c]) = config.max_retries

\* ---------------------------------------------- DownloadManager claims
\* C17: start_download with a blank url, a blank folder or a folder that
\* does not exist returns False with exactly one error callback, whether
\* a download is running or not (so before the busy check, whose error
\* would be a second one), schedules no task and leaves the session and
\* the worker as they are.
C17_InvalidStartRejected ==
  [][\A par \in {"blank_url", "blank_folder", "missing_folder"} :
       StartDownload(par) =>
         /\ lastRet' = FALSE
         /\ TotalErr' = TotalErr + 1
         /\ TotalSucc' = TotalSucc
         /\ nSessions' = nSessions
         /\ sessVars' = sessVars
         /\ workVars' = workVars]_vars

\* C17 witness: a download runs, a start is refused, then an invalid start
\* is refused.
C17_Witness ==
  /\ lastMain = "start_invalid"
  /\ ~lastRet
  /\ nRejects = 2
  /\ startErr = 2
  /\ nSessions = 1
  /\ is_downloading
  /\ LiveTasks # {}

\* Task t ends in this step.
TaskEnds(t) == tpc[t] # "done" /\ tpc'[t] = "done"

\* The session fields as _cleanup_after_completion leaves them.
CleanedUp ==
  /\ ~is_downloading
  /\ ~stop_requested
  /\ process = None
  /\ process_pid = None

ParseStep(t) == tpc[t] = "parse" /\ tpc'[t] # "parse"

\* C19: parsing a credential-error line sets stop_requested; once a task
\* has parsed one, its next poll (the head of the read loop) force-stops
\* the process instead of reading, and the task parses no further line.
C19_CredentialLineStopsAtNextPoll ==
  [][\A t \in Tasks :
       /\ (ParseStep(t) /\ tline[t] = CookieLine) => stop_requested'
       /\ (dataStop[t] /\ tpc[t] = "loop" /\ tpc'[t] # "loop") =>
            /\ tpc'[t] \in {"fswait_a", "postloop"}
            /\ procs'[t] # "alive"
       /\ dataStop[t] => ~ParseStep(t)]_vars

\* C20: while the task of a session is still live, a stop requested for
\* that session (by stop_download or by a credential-error line the task
\* parsed) stays requested: stop_requested is not back to false.
C20_StopRequestedMonotonic ==
  \A t \in LiveTasks : (userStop[t] \/ dataStop[t]) => stop_requested

\* C21: current_phase never moves backwards in the order preparing, video,
\* audio, merging while the lines of a session are parsed; the one
\* backward move is the reset to preparing made when start_download
\* accepts a new session.
C21_PhaseNeverRegresses ==
  [][\/ PhaseRank(current_phase') >= PhaseRank(current_phase)
     \/ (current_phase' = "preparing" /\ nSessions' = nSessions + 1)]_vars

\* C21 as the code has it: current_phase changes only at the reset to
\* preparing of an accepted start_download and at the parsing of a line;
\* a video, audio or merge line sets it to video, audio or merging
\* whatever it was before, and any other line leaves it alone.
C21_PhaseFollowsLines ==
  [][/\ current_phase' # current_phase =>
          \/ (current_phase' = "preparing" /\ nSessions' = nSessions + 1)
          \/ \E t \in Tasks : ParseStep(t)
     /\ \A t \in Tasks : ParseStep(t) =>
          current_phase' = CASE tline[t] = VideoLine -> "video"
                             [] tline[t] = AudioLine -> "audio"
                             [] tline[t] = MergeLine -> "merging"
                             [] OTHER -> current_phase]_vars

\* C21 witness: the read loop holds a video line to parse while the
\* session is already in the merging phase.
C21_Witness ==
  /\ nSessions = 1
  /\ tpc[1] = "parse"
  /\ tline[1] = VideoLine
  /\ current_phase = "merging"

\* The argument of the call on text has a piece of the set S.
HasAtom(S) == \E i \in 1..Len(arg.atoms) : arg.atoms[i] \in S

\* The call made is fn on a line of progress.
PhaseCall ==
  ret.fn = "_detect_download_phase" /\ arg.kind = "phase_line"

\* C22: for every line containing an audio-container extension token
\* (.m4a, .aac, .opus, .mp3) _detect_download_phase yields audio, whatever
\* other tokens the line carries.
C22_AudioExtensionYieldsAudio ==
  (PhaseCall /\ HasAtom(AudioExtensions)) => ret.value = "audio"

\* C22 as the code has it: a line with an audio extension yields merging
\* when it has a merge marker, else audio when it has the [download]
\* marker (whatever video extension or video word it also has), else no
\* phase.
C22_AudioExtensionOnDownloadLine ==
  (PhaseCall /\ HasAtom(AudioExtensions)) =>
     ret.value = IF HasAtom(MergeMarkers) THEN "merging"
                 ELSE IF HasAtom({DownloadMarker}) THEN "audio"
                 ELSE "none"

\* C22 witness: a [download] line with a video extension and an audio
\* extension was classified as audio.
C22_Witness ==
  /\ PhaseCall
  /\ arg.atoms = <<DownloadMarker, ".mp4", ".m4a">>
  /\ ret.value = "audio"

\* The call made is _is_cookie_error on an error line.
CookieCall == ret.fn = "_is_cookie_error" /\ arg.kind = "error_line"

\* C23: _is_cookie_error returns true for a line in which 'video
\* unavailable' comes with 'private', 'member' or 'sign in', in any case
\* of the letters, and false for a line whose only marker is a bare
\* 'video unavailable'.
C23_BareUnavailableIsNoCookieError ==
  (CookieCall /\ HasAtom(UnavailableMarkers)) =>
     /\ HasAtom(CompanionPhrases) => ret.value = TRUE
     /\ (\A i \in 1..Len(arg.atoms) :
           arg.atoms[i] \in UnavailableMarkers \cup NeutralPhrases) =>
          ret.value = FALSE

\* C23 witness: a line of a bare 'Video unavailable' between two neutral
\* phrases was classified as no credential error.
C23_Witness ==
  /\ CookieCall
  /\ arg.atoms = <<"ERROR: ", "Video unavailable", " in your country">>
  /\ ret.value = FALSE

\* The call made is is_playlist_url on a url of host, path and query.
PlaylistCall == ret.fn = "is_playlist_url" /\ arg.kind = "url"

\* C24: is_playlist_url returns true exactly for the urls with a list=
\* query parameter or a /playlist path segment, whatever the host.
C24_PlaylistIffListOrSegment ==
  PlaylistCall =>
    (ret.value <=>
       (arg.atoms[3] \in ListQueries \/ arg.atoms[2] \in PlaylistPaths))

\* C24 as the code has it: true exactly for the urls with a list= query
\* parameter, with the segment /playlist followed by a /, or with a path
\* that ends in playlist followed by the ? of a query, whatever the host;
\* a url that ends with the segment /playlist is no playlist url.
C24_PlaylistIffPatterns ==
  PlaylistCall =>
    (ret.value <=>
       \/ arg.atoms[3] \in ListQueries
       \/ arg.atoms[2] = "/playlist/PLtest123"
       \/ (arg.atoms[2] \in {"/playlist", "/myplaylist"} /\ arg.atoms[3] # ""))

\* C24 witness: a watch url of the music host with a list= parameter was
\* classified as a playlist url.
C24_Witness ==
  /\ PlaylistCall
  /\ arg.text = "https://music.youtube.com/watch?v=abc&list=XYZ"
  /\ ret.value = TRUE

\* The call made is extract_video_info on the output of a process.
InfoCall == ret.fn = "extract_video_info" /\ arg.kind = "stdout"

\* C25: every (url, title) pair extract_video_info returns has a url that
\* _is_valid_youtube_url accepts, and the pairs returned for an output
\* are those of its well-formed lines with such a url: malformed lines
\* and lines of another url are discarded.
C25_ReturnedUrlsAreValid ==
  InfoCall =>
    /\ \A i \in 1..Len(ret.value) : IsValidYoutubeUrl(ret.value[i][1])
    /\ Len(ret.value) <=
         Cardinality({j \in 1..Len(arg.atoms) : arg.atoms[j] \in ValidOutLines})

\* Task t leaves the handler of an exception in this step.
ExceptionStep(t) == tpc[t] = "exc" /\ tpc'[t] # "exc"

\* C26: an exception raised in a session does not unwind past the task:
\* the handler reports it through the error callback unless the session
\* was stopped (by stop_download or by a credential-error line, which
\* have their own status and error callbacks), then the cleanup runs, the
\* task ends and leaves the loop to the tasks of later start_download
\* calls.
C26_ExceptionsReported ==
  [][\A t \in Tasks :
       /\ ExceptionStep(t) =>
            /\ tpc'[t] = "cleanup"
            /\ nErr'[t] = nErr[t] + 1 \/ userStop[t] \/ dataStop[t]
       /\ (tpc[t] = "cleanup" /\ tpc'[t] = "done") =>
            /\ ~is_downloading'
            /\ running' # t]_vars

\* C27: no session has both its success callback and an error callback
\* emitted; a session the pre-flight probe rejected has the error callback
\* and no success callback.
C27_SuccessXorError ==
  \A t \in Tasks :
    /\ ~(nSucc[t] > 0 /\ nErr[t] > 0)
    /\ rejected[t] => (nErr[t] > 0 /\ nSucc[t] = 0)

\* A step of _immediate_force_stop.
ForceStopStep == fsQueued' < fsQueued \/ fsWaiting' < fsWaiting

\* Session s is the current one, accepted after the stop of an earlier
\* session, and nothing has asked it to stop.
FreshSession(s) ==
  /\ s > 1
  /\ current_download_task = s
  /\ mpc = "idle"
  /\ ~userStop[s]
  /\ ~dataStop[s]

\* C28: once a new session is accepted after a stop_download, neither the
\* terminal cleanup of an earlier session's task nor a step of the
\* _immediate_force_stop that stop_download scheduled changes
\* is_downloading, stop_requested, process or process_pid of the new
\* session, nor kills its process.
C28_StaleWorkLeavesNewSession ==
  [][\A s \in Tasks :
       (/\ FreshSession(s)
        /\ \/ \E t \in Tasks : t < s /\ TaskEnds(t)
           \/ ForceStopStep) =>
          /\ is_downloading' = is_downloading
          /\ stop_requested' = stop_requested
          /\ process' = process
          /\ process_pid' = process_pid
          /\ procs'[s] = procs[s]]_vars

\* stop_download runs _kill_process_immediately in this step.
KillStep == mpc = "kill" /\ mpc' # "kill"

\* stop_download is called in this step.
StopEntryStep == mpc = "idle" /\ mpc' = "kill"

C30_CancelledSessionLeavesNoProcess ==
  [][\A t \in Tasks :
       (TaskEnds(t) /\ (userStop[t] \/ dataStop[t])) =>
          procs'[t] # "alive"]_vars

\* C31: when a call of execute_with_retry returns, download_func was
\* invoked retry_count + 1 times, at most max_retries + 1 times, and the
\* notifications are retry_count in number, with the arguments
\* 1..retry_count in this order; this for every sequence of outcomes.
C31_AttemptsAndNotesMatchCount ==
  \A c \in Calls :
    ReturnedAlone(c) =>
      /\ Len(outcomes[c]) = retAt[c] + 1
      /\ Len(outcomes[c]) <= config.max_retries + 1
      /\ Len(notes[c]) = retAt[c]
      /\ \A i \in 1..Len(notes[c]) : notes[c][i][1] = i

\* C31 witness: a transient failure, then a credential failure whose
\* granted refresh is followed by a failed retry: three invocations, the
\* notifications 1 and 2, retry_count = 2.
C31_Witness ==
  /\ ReturnedAlone(1)
  /\ outcomes[1] = <<"transient", "cookie", "transient">>
  /\ retAt[1] = 2
  /\ Len(notes[1]) = 2
  /\ notes[1][2] = <<2, RefreshRetryMessage>>

\* The step in which call c asks on_cookie_refresh_request (line 123).
RefreshRequestStep(c) == Len(refreshes'[c]) = Len(refreshes[c]) + 1

\* C32: a granted credential refresh is followed by one more attempt of
\* download_func, and the refresh collaborator is never asked when no
\* attempt can follow: when retry_count = max_retries, max_retries = 0
\* (retries disabled) included.
C32_RefreshAskedOnlyWhenRetryFollows ==
  [][\A c \in Calls :
       RefreshRequestStep(c) =>
         /\ retry_count < config.max_retries
         /\ refreshes'[c][Len(refreshes'[c])] => rpc'[c] = "csleep"]_vars

\* CancelledError is delivered to task t in this step.
CancelledStep(t) == tcancel[t] # "no" /\ tcancel'[t] = "no"

\* What a step of task t out of its readline await is, but for a
\* cancellation: a line read, the end of the stream, or a timeout, after
\* which the task is at the stop check, nothing ended and nothing raised.
ReadOutcome(t) ==
  \/ tpc'[t] = "chk529" /\ linesLeft'[th[t]] = linesLeft[th[t]] - 1
  \/ tpc'[t] = "postloop" /\ procs[th[t]] = "dead"
  \/ tpc'[t] = "loop" /\ running' = t /\ ticked'[t]

\* What a poll of task t (the head of the read loop) does: without a
\* handle the read fails and the sequence ends; with stop_requested the
\* process is force-stopped and the loop is left at once; else the task
\* reads again.
PollOutcome(t) ==
  IF process = None THEN tpc'[t] = "postloop"
  ELSE IF stop_requested
    THEN tpc'[t] \in {"fswait_a", "postloop"} /\ procs'[process] # "alive"
    ELSE tpc'[t] = "readline"

SessionIdle == ~is_downloading /\ process = None /\ process_pid = None

\* The step in which start_download refuses valid parameters.
StartRefusedStep == nRejects' = nRejects + 1 /\ lastMain' # "start_invalid"

\* Task s has not ended and nothing ends it: its process stays alive and
\* stop_download was not called for its session.
Unended(s) ==
  /\ tpc[s] \notin {"none", "done"}
  /\ ~(procs[s] = "alive" /\ ~userStop[s])

\* The step in which task s ends.
EndStep(s) == tpc[s] # "done" /\ tpc'[s] = "done"

\* C34: every accepted session returns to idle: its task ends, unless its
\* process stays alive for ever and stop_download is never called for
\* it, and the step in which the task ends leaves is_downloading false
\* and process and process_pid None; and start_download refuses valid
\* parameters only while is_downloading is true, so that an idle manager
\* accepts them.
C34_SessionReturnsToIdle ==
  /\ <>[](\A s \in Tasks : ~Unended(s))
  /\ [][/\ \A s \in Tasks : EndStep(s) => SessionIdle'
        /\ StartRefusedStep => is_downloading]_vars

\* C34 witness: the first session's process was killed by stop_download,
\* its task has ended, the manager is idle.
C34_Witness ==
  /\ tpc[1] = "done"
  /\ userStop[1]
  /\ rc[1] = "killed"
  /\ SessionIdle
  /\ mpc = "idle"

\* C35: the retry policy is immutable per run: a call of
\* execute_with_retry uses the max_retries and the fallback flag in force
\* when it was made, whatever update_retry_config does meanwhile: it
\* makes at most that max_retries + 1 attempts, exactly so many when all
\* fail with a transient error, its credential errors go to the fallback
\* exactly when that flag and its url say so, and retry_count stays
\* within that max_retries.
C35_PolicyImmutablePerRun ==
  \A c \in Calls :
    /\ (rpc[c] \notin {"none", "done"} /\ ~overlap[c]) =>
         retry_count <= policy[c].max_retries
    /\ ReturnedAlone(c) =>
         /\ Len(outcomes[c]) <= policy[c].max_retries + 1
         /\ AllTransient(outcomes[c]) =>
              Len(outcomes[c]) = policy[c].max_retries + 1
         /\ fallbacks[c] # <<>> =>
              policy[c].individual_download_on_playlist_fail

\* C36: is_downloading is true from the acceptance of a session by
\* start_download until the session's task has ended with its cleanup,
\* and false in every other state: it is true exactly while a task is
\* scheduled or executing on the worker.
C36_DownloadingIffTaskLive == is_downloading <=> LiveTasks # {}

\* The fallback has returned.
FallbackDone == fpc = "done"

\* The items whose download completed (the process exited with code 0).
Completed == {k \in 1..Len(begun) : begun[k][2] = "completed"}

\* C37: the fallback downloads the items one at a time in list order; an
\* item that fails is reported and the later items are attempted all the
\* same; no item is begun with stop_requested set; an empty expansion
\* returns False with one error callback; the value returned is True
\* exactly when the download of at least one item completed.
C37_FallbackItemByItem ==
  /\ Len(begun) <= Len(video_info)
  /\ \A k \in 1..Len(begun) : begun[k][1] = video_info[k]
  /\ \A k \in 1..Len(begun) :
       begun[k][2] = "raises" => <<"raises", video_info[k]>> \in
                                   {errors[e] : e \in 1..Len(errors)}
  /\ (FallbackDone /\ ~stop_requested) => Len(begun) = Len(video_info)
  /\ (fpc = "download" /\ begun[Len(begun)][2] = "begun") =>
       \A k \in 1..(Len(begun) - 1) : begun[k][2] # "stopped"
  /\ (FallbackDone /\ video_info = <<>>) =>
       returned = "false" /\ errors = <<<<"no_videos", "">>>>
  /\ FallbackDone => (returned = "true" <=> Completed # {})

\* The call made is _parse_progress_line on a progress line.
ParseCall == ret.fn = "_parse_progress_line" /\ arg.kind = "phase_line"

\* The phase a label names when current_phase is p.
LabelOf(p) == IF p \in {"video", "audio", "merging"} THEN p ELSE "generic"

\* C39: for every line that reaches the progress callback, the phase
\* named in the label is current_phase as the line's phase update left
\* it (the generic label when it is none of video, audio, merging).
C39_LabelNamesCurrentPhase ==
  (ParseCall /\ ret.value.label # "none") =>
     ret.value.label = LabelOf(ret.value.phase)

\* C40: a line with a merge marker (in any case of the letters) is
\* classified as merging by _detect_download_phase, whatever audio or
\* video tokens and whatever [download] marker it also has, and
\* _parse_progress_line leaves current_phase = merging on such a line.
C40_MergeMarkerWins ==
  /\ (PhaseCall /\ HasAtom(MergeMarkers)) => ret.value = "merging"
  /\ (ParseCall /\ HasAtom(MergeMarkers)) => ret.value.phase = "merging"

\* C40 witness: a [download] line with an audio extension and the
\* post-processing marker was parsed while current_phase was video, and
\* current_phase is merging.
C40_Witness ==
  /\ ParseCall
  /\ arg.atoms = <<DownloadMarker, ".m4a", "Post-processing ">>
  /\ ret.value.before = "video"
  /\ ret.value.phase = "merging"

\* The kill steps made with the outcome out.
KillStepsWith(out) ==
  {kcalls[i][1] : i \in {k \in DOMAIN kcalls :
                           /\ kcalls[k][1] \in {"pid", "name", "tree", "handle"}
                           /\ kcalls[k][2] = out}}

\* A failure of step was reported through the status callback.
FailureReported(step) == \E i \in DOMAIN kcb : kcb[i] = <<"status", step, "failed">>

\* C38: in every termination path a kill step that fails with "no such
\* process" is passed over without a report; a kill step that fails with
\* another OS error is reported through the status callback; no path
\* calls the error callback; and every path runs to its end: process_pid
\* is cleared, and in _kill_process_immediately the kill by name and the
\* verification are made whatever the earlier steps did.
C38_KillErrorsReportedAsStatus ==
  /\ \A step \in KillStepsWith("no_such_process") : ~FailureReported(step)
  /\ \A step \in KillStepsWith("os_error") : FailureReported(step)
  /\ \A i \in DOMAIN kcb : kcb[i][1] = "status"
  /\ (kpc = "done" /\ kpath # "_force_stop_process") => kpid = None
  /\ (kpc = "done" /\ kpath = "_kill_process_immediately") =>
       /\ \E i \in DOMAIN kcalls : kcalls[i][1] = "name"
       /\ \E i \in DOMAIN kcalls : kcalls[i][1] = "verify"

=============================================================================
